---- MODULE Spec2Model ----
(***************************************************************************)
(* Model of the local DNS record store of olm (dns/dns_records.go): the    *)
(* exact-name trie, the wildcard table, the reverse (IP -> name) table,    *)
(* the wildcard matcher, the reverse-DNS name conversions, and the         *)
(* resolver decision built on the store's queries.                         *)
(*                                                                         *)
(* Strings are sequences of one-character strings; a net.IP is the         *)
(* sequence of its bytes (<<>> is the nil IP).                             *)
(***************************************************************************)
EXTENDS Integers, Sequences, FiniteSets, TLC

VARIABLES root, wildcards, ptrRecords, last, mPattern, mDomain, mDone, mResult,
          revIP, revName, revBack, revPC, mu, calls, committed,
          arrays, sets, out, hLast, flat, mStack, dns

storeVars == <<root, wildcards, ptrRecords>>
matchVars == <<mPattern, mDomain, mDone, mResult, mStack>>
revVars == <<revIP, revName, revBack, revPC>>
lockVars == <<mu, calls, committed>>
heapVars == <<arrays, sets, out, hLast>>
vars == <<root, wildcards, ptrRecords, last, mPattern, mDomain, mDone, mResult,
          revIP, revName, revBack, revPC, mu, calls, committed,
          arrays, sets, out, hLast, flat, mStack, dns>>

\* var configurator platform.DNSConfigurator: nil until SetupDNSOverride runs
DNSIdle == [pc |-> "idle", manager |-> "none", configurator |-> "nil", log |-> <<>>, err |-> "nil", setups |-> 0]

(***************************************************************************)
(* Bounds of the model.                                                    *)
(***************************************************************************)
\* most forward records (A + AAAA, exact + wildcard) the store may hold
MaxRecords == 2
\* longest pattern and longest name handed to the matcher
MaxPatLen == 4
MaxNameLen == 5

(***************************************************************************)
(* Record types (dns.TypeA, dns.TypeAAAA, dns.TypePTR).                    *)
(***************************************************************************)
RecordTypeA == 1
RecordTypeAAAA == 28
RecordTypePTR == 12

(***************************************************************************)
(* String helpers (package strings).                                       *)
(***************************************************************************)
UpperChars == <<"A","B","C","D","E","F","G","H","I","J","K","L","M",
                "N","O","P","Q","R","S","T","U","V","W","X","Y","Z">>
LowerChars == <<"a","b","c","d","e","f","g","h","i","j","k","l","m",
                "n","o","p","q","r","s","t","u","v","w","x","y","z">>

ToLowerChar(c) ==
    IF \E k \in 1..26 : UpperChars[k] = c
    THEN LowerChars[CHOOSE k \in 1..26 : UpperChars[k] = c]
    ELSE c

ToLower(s) == [i \in 1..Len(s) |-> ToLowerChar(s[i])]

HasSuffix(s, suf) ==
    /\ Len(s) >= Len(suf)
    /\ SubSeq(s, Len(s) - Len(suf) + 1, Len(s)) = suf

TrimSuffix(s, suf) ==
    IF HasSuffix(s, suf) THEN SubSeq(s, 1, Len(s) - Len(suf)) ELSE s

ContainsAny(s, chars) == \E i \in 1..Len(s) : s[i] \in chars

\* index of the first occurrence of character c in s, 0 when there is none
IndexChar(s, c) ==
    IF \E i \in 1..Len(s) : s[i] = c
    THEN CHOOSE i \in 1..Len(s) : s[i] = c /\ \A j \in 1..(i-1) : s[j] # c
    ELSE 0

RECURSIVE Split(_, _)
Split(s, c) ==
    LET i == IndexChar(s, c)
    IN  IF i = 0 THEN <<s>>
        ELSE <<SubSeq(s, 1, i-1)>> \o Split(SubSeq(s, i+1, Len(s)), c)

RECURSIVE Join(_, _)
Join(parts, sep) ==
    IF Len(parts) = 0 THEN <<>>
    ELSE IF Len(parts) = 1 THEN parts[1]
    ELSE parts[1] \o sep \o Join(Tail(parts), sep)

Reverse(s) == [i \in 1..Len(s) |-> s[Len(s) + 1 - i]]

(***************************************************************************)
(* dns.IsFqdn / dns.Fqdn of github.com/miekg/dns: a name is fully          *)
(* qualified when it ends in a dot that is not escaped by a backslash.     *)
(***************************************************************************)
TrailingBackslashes(s) ==
    IF \E i \in 1..Len(s) : s[i] # "\\"
    THEN Len(s) - (CHOOSE i \in 1..Len(s) : s[i] # "\\" /\ \A j \in (i+1)..Len(s) : s[j] = "\\")
    ELSE Len(s)

IsFqdn(s) ==
    /\ Len(s) > 0
    /\ s[Len(s)] = "."
    /\ TrailingBackslashes(SubSeq(s, 1, Len(s) - 1)) % 2 = 0

Fqdn(s) == IF IsFqdn(s) THEN s ELSE s \o <<".">>

(***************************************************************************)
(* Number formatting and parsing (fmt.Sprintf "%d" / "%x", digit parsing). *)
(***************************************************************************)
HexChars == <<"0","1","2","3","4","5","6","7","8","9","a","b","c","d","e","f">>

IsDigit(c) == \E k \in 1..10 : HexChars[k] = c
IsHexDigit(c) == \E k \in 1..16 : HexChars[k] = c
HexVal(c) == (CHOOSE k \in 1..16 : HexChars[k] = c) - 1

\* fmt "%d" of a byte
Itoa(n) ==
    IF n < 10 THEN <<HexChars[n + 1]>>
    ELSE IF n < 100 THEN <<HexChars[(n \div 10) + 1], HexChars[(n % 10) + 1]>>
    ELSE <<HexChars[(n \div 100) + 1], HexChars[((n \div 10) % 10) + 1], HexChars[(n % 10) + 1]>>

\* fmt "%x" of a value below 65536, without leading zeros
RECURSIVE Hex(_)
Hex(n) == IF n < 16 THEN <<HexChars[n + 1]>> ELSE Hex(n \div 16) \o <<HexChars[(n % 16) + 1]>>

RECURSIVE Atoi(_)
Atoi(s) == IF Len(s) = 0 THEN 0 ELSE 10 * Atoi(SubSeq(s, 1, Len(s) - 1)) + HexVal(s[Len(s)])

RECURSIVE Atox(_)
Atox(s) == IF Len(s) = 0 THEN 0 ELSE 16 * Atox(SubSeq(s, 1, Len(s) - 1)) + HexVal(s[Len(s)])

(***************************************************************************)
(* net.IP (package net): To4, To16, Equal, String, ParseIP.                *)
(***************************************************************************)
NilIP == <<>>
v4InV6Prefix == <<0,0,0,0,0,0,0,0,0,0,255,255>>

To4(ip) ==
    IF Len(ip) = 4 THEN ip
    ELSE IF Len(ip) = 16 /\ SubSeq(ip, 1, 12) = v4InV6Prefix THEN SubSeq(ip, 13, 16)
    ELSE NilIP

To16(ip) ==
    IF Len(ip) = 4 THEN v4InV6Prefix \o ip
    ELSE IF Len(ip) = 16 THEN ip
    ELSE NilIP

IPEqual(ip, x) ==
    IF Len(ip) = Len(x) THEN ip = x
    ELSE IF Len(ip) = 4 /\ Len(x) = 16 THEN SubSeq(x, 1, 12) = v4InV6Prefix /\ ip = SubSeq(x, 13, 16)
    ELSE IF Len(ip) = 16 /\ Len(x) = 4 THEN SubSeq(ip, 1, 12) = v4InV6Prefix /\ x = SubSeq(ip, 13, 16)
    ELSE FALSE

\* the eight 16-bit groups of a 16-byte address
Groups(ip) == [i \in 1..8 |-> ip[2*i - 1] * 256 + ip[2*i]]

\* length of the run of zero groups that starts at group i
RECURSIVE ZeroRun(_, _)
ZeroRun(g, i) == IF i > 8 \/ g[i] # 0 THEN 0 ELSE 1 + ZeroRun(g, i + 1)

\* first group of the longest run of two or more zero groups, 0 when none
ZeroStart(g) ==
    IF \E i \in 1..8 : ZeroRun(g, i) >= 2
    THEN CHOOSE i \in 1..8 :
            /\ ZeroRun(g, i) >= 2
            /\ \A j \in 1..8 : ZeroRun(g, j) <= ZeroRun(g, i)
            /\ \A j \in 1..(i-1) : ZeroRun(g, j) < ZeroRun(g, i)
    ELSE 0

RECURSIVE FormatGroups(_, _, _)
FormatGroups(g, zs, i) ==
    IF i > 8 THEN <<>>
    ELSE IF i = zs
    THEN LET ze == zs + ZeroRun(g, zs)
         IN  <<":", ":">> \o (IF ze > 8 THEN <<>> ELSE Hex(g[ze]) \o FormatGroups(g, zs, ze + 1))
    ELSE (IF i > 1 THEN <<":">> ELSE <<>>) \o Hex(g[i]) \o FormatGroups(g, zs, i + 1)

RECURSIVE hexString(_)
hexString(b) ==
    IF Len(b) = 0 THEN <<>>
    ELSE <<HexChars[(b[1] \div 16) + 1], HexChars[(b[1] % 16) + 1]>> \o hexString(Tail(b))

IPString(ip) ==
    IF Len(ip) = 0 THEN <<"<","n","i","l",">">>
    ELSE IF Len(ip) # 4 /\ Len(ip) # 16 THEN <<"?">> \o hexString(ip)
    ELSE IF Len(To4(ip)) = 4
    THEN LET p4 == To4(ip)
         IN  Itoa(p4[1]) \o <<".">> \o Itoa(p4[2]) \o <<".">> \o Itoa(p4[3]) \o <<".">> \o Itoa(p4[4])
    ELSE LET g == Groups(ip) IN FormatGroups(g, ZeroStart(g), 1)

\* a decimal field of a dotted quad: 1 to 3 digits, no leading zero, at most 255
ValidDecField(f) ==
    /\ Len(f) >= 1 /\ Len(f) <= 3
    /\ \A i \in 1..Len(f) : IsDigit(f[i])
    /\ (Len(f) > 1 => f[1] # "0")
    /\ Atoi(f) <= 255

\* a group of an IPv6 text: 1 to 4 hex digits
ValidHexGroup(f) ==
    /\ Len(f) >= 1 /\ Len(f) <= 4
    /\ \A i \in 1..Len(f) : IsHexDigit(f[i])

\* the eight groups of a colon-separated IPv6 text, <<>> when it is no
\* address: without "::" there are eight groups; one "::" (at the start, at
\* the end, or between two groups) stands for the missing groups, at least
\* one, which are zero
ExpandGroups(g) ==
    LET n == Len(g)
        empties == {k \in 1..n : g[k] = <<>>}
        count == n - Cardinality(empties)
        first == IF empties = {} THEN 0 ELSE CHOOSE k \in empties : \A x \in empties : k <= x
        onlyEllipsis == n = 3 /\ empties = {1, 2, 3}
        oneEllipsis ==
            \/ onlyEllipsis
            \/ n >= 3 /\ empties = {1, 2}
            \/ n >= 3 /\ empties = {n - 1, n}
            \/ Cardinality(empties) = 1 /\ first > 1 /\ first < n
        before == SubSeq(g, 1, first - 1)
        after == SelectSeq(SubSeq(g, first + 1, n), LAMBDA x : x # <<>>)
    IN  IF \E k \in (1..n) \ empties : ~ValidHexGroup(g[k]) THEN <<>>
        ELSE IF empties = {} THEN (IF n = 8 THEN g ELSE <<>>)
        ELSE IF oneEllipsis /\ count <= 7
        THEN before \o [k \in 1..(8 - count) |-> <<"0">>] \o after
        ELSE <<>>

\* net.ParseIP on the texts reverseDNSToIP builds: a dotted quad of four
\* fields without ':', or colon-separated groups without '.'; the result is
\* always in 16-byte form
ParseIP(s) ==
    LET quad == Split(s, ".")
        grp  == ExpandGroups(Split(s, ":"))
    IN  IF Len(quad) = 4 /\ \A i \in 1..4 : ValidDecField(quad[i])
        THEN v4InV6Prefix \o [i \in 1..4 |-> Atoi(quad[i])]
        ELSE IF Len(quad) = 1 /\ Len(grp) = 8
        THEN [i \in 1..16 |-> IF i % 2 = 1 THEN Atox(grp[(i + 1) \div 2]) \div 256
                                           ELSE Atox(grp[i \div 2]) % 256]
        ELSE NilIP

(***************************************************************************)
(* Reverse-DNS name <-> IP.                                                *)
(***************************************************************************)
InAddrArpa == <<".","i","n","-","a","d","d","r",".","a","r","p","a",".">>
Ip6Arpa == <<".","i","p","6",".","a","r","p","a",".">>

\* mutant: the octets and nibbles are not put back in address order
reverseDNSToIP_NoReverse(domain0) ==
    LET domain == ToLower(Fqdn(domain0))
    IN  IF HasSuffix(domain, InAddrArpa)
        THEN LET parts == Split(TrimSuffix(domain, InAddrArpa), ".")
             IN  IF Len(parts) # 4 THEN NilIP
                 ELSE ParseIP(Join(parts, <<".">>))
        ELSE IF HasSuffix(domain, Ip6Arpa)
        THEN LET parts == Split(TrimSuffix(domain, Ip6Arpa), ".")
             IN  IF Len(parts) # 32 THEN NilIP
                 ELSE LET ipv6Parts == [k \in 1..8 |-> parts[4*k - 3] \o parts[4*k - 2]
                                                       \o parts[4*k - 1] \o parts[4*k]]
                      IN  ParseIP(Join(ipv6Parts, <<":">>))
        ELSE NilIP

\* mutant: labels in front of the last four of an in-addr.arpa name are ignored
reverseDNSToIP_LastFour(domain0) ==
    LET domain == ToLower(Fqdn(domain0))
    IN  IF HasSuffix(domain, InAddrArpa)
        THEN LET parts == Split(TrimSuffix(domain, InAddrArpa), ".")
             IN  IF Len(parts) < 4 THEN NilIP
                 ELSE ParseIP(Join(Reverse(SubSeq(parts, Len(parts) - 3, Len(parts))), <<".">>))
        ELSE IF HasSuffix(domain, Ip6Arpa)
        THEN LET parts == Split(TrimSuffix(domain, Ip6Arpa), ".")
             IN  IF Len(parts) # 32 THEN NilIP
                 ELSE LET reversed == Reverse(parts)
                          ipv6Parts == [k \in 1..8 |-> reversed[4*k - 3] \o reversed[4*k - 2]
                                                       \o reversed[4*k - 1] \o reversed[4*k]]
                      IN  ParseIP(Join(ipv6Parts, <<":">>))
        ELSE NilIP

reverseDNSToIP(domain0) ==
    LET domain == ToLower(Fqdn(domain0))
    IN  IF HasSuffix(domain, InAddrArpa)
        THEN LET parts == Split(TrimSuffix(domain, InAddrArpa), ".")
             IN  IF Len(parts) # 4 THEN NilIP
                 ELSE ParseIP(Join(Reverse(parts), <<".">>))
        ELSE IF HasSuffix(domain, Ip6Arpa)
        THEN LET parts == Split(TrimSuffix(domain, Ip6Arpa), ".")
             IN  IF Len(parts) # 32 THEN NilIP
                 ELSE LET reversed == Reverse(parts)
                          ipv6Parts == [k \in 1..8 |-> reversed[4*k - 3] \o reversed[4*k - 2]
                                                       \o reversed[4*k - 1] \o reversed[4*k]]
                      IN  ParseIP(Join(ipv6Parts, <<":">>))
        ELSE NilIP

\* mutant: the high nibble of each byte comes first
RECURSIVE Nibbles_HighFirst(_, _)
Nibbles_HighFirst(ip6, i) ==
    IF i = 0 THEN <<>>
    ELSE <<Hex(ip6[i] \div 16), Hex(ip6[i] % 16)>> \o Nibbles_HighFirst(ip6, i - 1)

\* the nibble labels of bytes i down to 1 of a 16-byte address
RECURSIVE Nibbles(_, _)
Nibbles(ip6, i) ==
    IF i = 0 THEN <<>>
    ELSE <<Hex(ip6[i] % 16), Hex(ip6[i] \div 16)>> \o Nibbles(ip6, i - 1)

IPToReverseDNS(ip) ==
    IF Len(To4(ip)) # 0
    THEN LET ip4 == To4(ip)
         IN  Fqdn(Itoa(ip4[4]) \o <<".">> \o Itoa(ip4[3]) \o <<".">> \o Itoa(ip4[2]) \o <<".">>
                  \o Itoa(ip4[1]) \o SubSeq(InAddrArpa, 1, Len(InAddrArpa) - 1))
    ELSE IF Len(To16(ip)) # 0
    THEN Fqdn(Join(Nibbles(To16(ip), 16), <<".">>) \o SubSeq(Ip6Arpa, 1, Len(Ip6Arpa) - 1))
    ELSE <<>>

(***************************************************************************)
(* Wildcard matching.  Indices pi, di are the 0-based byte offsets of the  *)
(* source; pattern[pi] of the source is pattern[pi + 1] here.              *)
(***************************************************************************)
\* mutant: '*' does not consume a '.'
RECURSIVE matchWildcardInternal_StarInLabel(_, _, _, _)
matchWildcardInternal_StarInLabel(pattern, domain, pi, di) ==
    LET plen == Len(pattern)
        dlen == Len(domain)
    IN  IF pi = plen /\ di = dlen THEN TRUE
        ELSE IF pi = plen THEN FALSE
        ELSE IF pattern[pi + 1] = "*"
        THEN IF pi = 0 /\ pi + 1 < plen /\ pattern[pi + 2] = "."
             THEN IF di = dlen THEN FALSE
                  ELSE \E i \in (di + 1)..dlen :
                          /\ \A k \in (di + 1)..i : domain[k] # "."
                          /\ matchWildcardInternal_StarInLabel(pattern, domain, pi + 1, i)
             ELSE IF matchWildcardInternal_StarInLabel(pattern, domain, pi + 1, di) THEN TRUE
             ELSE IF di < dlen /\ domain[di + 1] # "."
             THEN matchWildcardInternal_StarInLabel(pattern, domain, pi, di + 1)
             ELSE FALSE
        ELSE IF pattern[pi + 1] = "?"
        THEN IF di >= dlen THEN FALSE
             ELSE matchWildcardInternal_StarInLabel(pattern, domain, pi + 1, di + 1)
        ELSE IF di >= dlen \/ pattern[pi + 1] # domain[di + 1] THEN FALSE
        ELSE matchWildcardInternal_StarInLabel(pattern, domain, pi + 1, di + 1)

\* mutant: every '*' followed by '.' must consume a byte, not only the first
RECURSIVE matchWildcardInternal_AnyStarDot(_, _, _, _)
matchWildcardInternal_AnyStarDot(pattern, domain, pi, di) ==
    LET plen == Len(pattern)
        dlen == Len(domain)
    IN  IF pi = plen /\ di = dlen THEN TRUE
        ELSE IF pi = plen THEN FALSE
        ELSE IF pattern[pi + 1] = "*"
        THEN IF pi + 1 < plen /\ pattern[pi + 2] = "."
             THEN IF di = dlen THEN FALSE
                  ELSE \E i \in (di + 1)..dlen : matchWildcardInternal_AnyStarDot(pattern, domain, pi + 1, i)
             ELSE IF matchWildcardInternal_AnyStarDot(pattern, domain, pi + 1, di) THEN TRUE
             ELSE IF di < dlen THEN matchWildcardInternal_AnyStarDot(pattern, domain, pi, di + 1)
             ELSE FALSE
        ELSE IF pattern[pi + 1] = "?"
        THEN IF di >= dlen THEN FALSE
             ELSE matchWildcardInternal_AnyStarDot(pattern, domain, pi + 1, di + 1)
        ELSE IF di >= dlen \/ pattern[pi + 1] # domain[di + 1] THEN FALSE
        ELSE matchWildcardInternal_AnyStarDot(pattern, domain, pi + 1, di + 1)

RECURSIVE matchWildcardInternal(_, _, _, _)
matchWildcardInternal(pattern, domain, pi, di) ==
    LET plen == Len(pattern)
        dlen == Len(domain)
    IN  IF pi = plen /\ di = dlen THEN TRUE
        ELSE IF pi = plen THEN FALSE
        ELSE IF pattern[pi + 1] = "*"
        THEN IF pi = 0 /\ pi + 1 < plen /\ pattern[pi + 2] = "."
             THEN IF di = dlen THEN FALSE
                  ELSE \E i \in (di + 1)..dlen : matchWildcardInternal(pattern, domain, pi + 1, i)
             ELSE IF matchWildcardInternal(pattern, domain, pi + 1, di) THEN TRUE
             ELSE IF di < dlen THEN matchWildcardInternal(pattern, domain, pi, di + 1)
             ELSE FALSE
        ELSE IF pattern[pi + 1] = "?"
        THEN IF di >= dlen THEN FALSE
             ELSE matchWildcardInternal(pattern, domain, pi + 1, di + 1)
        ELSE IF di >= dlen \/ pattern[pi + 1] # domain[di + 1] THEN FALSE
        ELSE matchWildcardInternal(pattern, domain, pi + 1, di + 1)

matchWildcard(pattern, domain) == matchWildcardInternal(pattern, domain, 0, 0)

(***************************************************************************)
(* The store.  root is the trie: a function from the label paths of the    *)
(* nodes that exist (the root is the empty path) to the node's data;       *)
(* node.children[label] is nil exactly when the child's path is not in     *)
(* DOMAIN root.  wildcards maps a pattern to its recordSet, ptrRecords     *)
(* maps ip.String() to a domain.  A store value s is the record            *)
(* [root, wildcards, ptrRecords].                                          *)
(***************************************************************************)
\* node.data = nil
NilData == [nil |-> TRUE, A |-> <<>>, AAAA |-> <<>>]
\* &recordSet{}
recordSet == [nil |-> FALSE, A |-> <<>>, AAAA |-> <<>>]

EmptyMap == [k \in {} |-> k]
MapPut(m, k, v) == [x \in (DOMAIN m) \cup {k} |-> IF x = k THEN v ELSE m[x]]
MapDelete(m, k) == [x \in (DOMAIN m) \ {k} |-> m[x]]

NewDNSRecordStore ==
    [root |-> [p \in {<<>>} |-> NilData], wildcards |-> EmptyMap, ptrRecords |-> EmptyMap]

domainToPath(domain0) ==
    LET domain == TrimSuffix(ToLower(Fqdn(domain0)), <<".">>)
    IN  IF domain = <<>> THEN <<>> ELSE Reverse(Split(domain, "."))

\* mutant: the name is not lower-cased
NormalizeDomain_KeepCase(domain) ==
    Fqdn(IF Len(domain) = 0 \/ domain[Len(domain)] # "." THEN domain \o <<".">> ELSE domain)

\* the normalization at the head of AddRecord, AddPTRRecord and RemoveRecord
NormalizeDomain(domain) ==
    ToLower(Fqdn(IF Len(domain) = 0 \/ domain[Len(domain)] # "." THEN domain \o <<".">> ELSE domain))

\* mutant: only '*' makes a name a wildcard pattern
isWildcard_StarOnly(domain) == ContainsAny(domain, {"*"})

isWildcard(domain) == ContainsAny(domain, {"*", "?"})

\* the walk from the root along path reaches a node (no child on the way is nil)
WalkFinds(rt, path) == \A k \in 0..Len(path) : SubSeq(path, 1, k) \in DOMAIN rt

\* mutant: an address the list already holds is not appended again
appendIP_Dedup(rs, ip, isV4) ==
    IF isV4 THEN (IF \E i \in 1..Len(rs.A) : IPEqual(rs.A[i], ip) THEN rs ELSE [rs EXCEPT !.A = Append(rs.A, ip)])
    ELSE (IF \E i \in 1..Len(rs.AAAA) : IPEqual(rs.AAAA[i], ip) THEN rs ELSE [rs EXCEPT !.AAAA = Append(rs.AAAA, ip)])

\* mutant: the address is put in front of the list
appendIP_Front(rs, ip, isV4) ==
    IF isV4 THEN [rs EXCEPT !.A = <<ip>> \o rs.A] ELSE [rs EXCEPT !.AAAA = <<ip>> \o rs.AAAA]

\* append ip to the A or the AAAA list of a record set
appendIP(rs, ip, isV4) ==
    IF isV4 THEN [rs EXCEPT !.A = Append(rs.A, ip)] ELSE [rs EXCEPT !.AAAA = Append(rs.AAAA, ip)]

\* mutant: only the first occurrence is removed
removeIP_First(ips, toRemove) ==
    IF \E i \in 1..Len(ips) : IPEqual(ips[i], toRemove)
    THEN LET i == CHOOSE k \in 1..Len(ips) :
                      IPEqual(ips[k], toRemove) /\ \A j \in 1..(k - 1) : ~IPEqual(ips[j], toRemove)
         IN  SubSeq(ips, 1, i - 1) \o SubSeq(ips, i + 1, Len(ips))
    ELSE ips

removeIP(ips, toRemove) == SelectSeq(ips, LAMBDA ip : ~IPEqual(ip, toRemove))

\* mutant: an existing PTR entry is kept (first writer wins)
AddRecordPTR_KeepFirst(ptr, domain, ip) ==
    IF IPString(ip) \in DOMAIN ptr THEN ptr ELSE MapPut(ptr, IPString(ip), domain)

\* the PTR entry AddRecord installs for an exact name
AddRecordPTR(ptr, domain, ip) == MapPut(ptr, IPString(ip), domain)

\* the wildcard branch of AddRecord
AddRecordWildcard(s, domain, ip, isV4) ==
    LET rs == IF domain \in DOMAIN s.wildcards THEN s.wildcards[domain] ELSE recordSet
    IN  [s EXCEPT !.wildcards = MapPut(s.wildcards, domain, appendIP(rs, ip, isV4))]

\* the exact-name branch of AddRecord: extend the trie, append, set the PTR
AddRecordExact(s, domain, ip, isV4) ==
    LET path == domainToPath(domain)
        created == {SubSeq(path, 1, k) : k \in 0..Len(path)} \ DOMAIN s.root
        rt == [p \in (DOMAIN s.root) \cup created |-> IF p \in created THEN NilData ELSE s.root[p]]
        data == IF rt[path].nil THEN recordSet ELSE rt[path]
    IN  [root |-> [rt EXCEPT ![path] = appendIP(data, ip, isV4)],
         wildcards |-> s.wildcards,
         ptrRecords |-> AddRecordPTR(s.ptrRecords, domain, ip)]

\* AddRecord fails with a ParseError
AddRecordFails(ip) == Len(To4(ip)) = 0 /\ Len(To16(ip)) = 0

\* mutant: an empty name is ignored
AddRecordStore_SkipEmpty(s, domain0, ip) ==
    LET domain == NormalizeDomain(domain0)
        isV4 == Len(To4(ip)) # 0
    IN  IF Len(domain0) = 0 THEN s
        ELSE IF isWildcard(domain) THEN AddRecordWildcard(s, domain, ip, isV4)
        ELSE AddRecordExact(s, domain, ip, isV4)

\* the store after a successful AddRecord(domain0, ip)
AddRecordStore(s, domain0, ip) ==
    LET domain == NormalizeDomain(domain0)
        isV4 == Len(To4(ip)) # 0
    IN  IF isWildcard(domain) THEN AddRecordWildcard(s, domain, ip, isV4)
        ELSE AddRecordExact(s, domain, ip, isV4)

\* mutant: an existing PTR entry is not overwritten
AddPTRRecordStore_KeepExisting(s, ip, domain0) ==
    IF IPString(ip) \in DOMAIN s.ptrRecords THEN s
    ELSE [s EXCEPT !.ptrRecords = MapPut(s.ptrRecords, IPString(ip), NormalizeDomain(domain0))]

AddPTRRecordStore(s, ip, domain0) ==
    [s EXCEPT !.ptrRecords = MapPut(s.ptrRecords, IPString(ip), NormalizeDomain(domain0))]

\* mutant: removing an address from a pattern deletes the pattern's entry
RemoveRecordWildcard_DeleteEntry(s, domain, ip) ==
    [s EXCEPT !.wildcards = MapDelete(s.wildcards, domain)]

\* the wildcard branch of RemoveRecord
RemoveRecordWildcard(s, domain, ip) ==
    IF ip = NilIP THEN [s EXCEPT !.wildcards = MapDelete(s.wildcards, domain)]
    ELSE IF domain \notin DOMAIN s.wildcards THEN s
    ELSE LET rs0 == s.wildcards[domain]
             rs == IF Len(To4(ip)) # 0 THEN [rs0 EXCEPT !.A = removeIP(rs0.A, ip)]
                   ELSE [rs0 EXCEPT !.AAAA = removeIP(rs0.AAAA, ip)]
         IN  IF Len(rs.A) = 0 /\ Len(rs.AAAA) = 0
             THEN [s EXCEPT !.wildcards = MapDelete(s.wildcards, domain)]
             ELSE [s EXCEPT !.wildcards = MapPut(s.wildcards, domain, rs)]

\* mutant: a removal leaves the PTR entry in place
RemoveOwnedPTR_Keep(ptr, domain, ip) == ptr

\* mutant: the PTR entry of ip is deleted whatever name it points to
RemoveOwnedPTR_Unguarded(ptr, domain, ip) == MapDelete(ptr, IPString(ip))

\* delete the PTR entry of ip when it exists and still points to domain
RemoveOwnedPTR(ptr, domain, ip) ==
    IF IPString(ip) \in DOMAIN ptr /\ ptr[IPString(ip)] = domain
    THEN MapDelete(ptr, IPString(ip)) ELSE ptr

RECURSIVE RemoveOwnedPTRs(_, _, _)
RemoveOwnedPTRs(ptr, domain, ips) ==
    IF Len(ips) = 0 THEN ptr
    ELSE RemoveOwnedPTRs(RemoveOwnedPTR(ptr, domain, ips[1]), domain, Tail(ips))

\* mutant: removing all records of a name prunes its node and the nodes below
RemoveRecordExact_Prune(s, domain, ip) ==
    LET path == domainToPath(domain)
    IN  IF ~WalkFinds(s.root, path) THEN s
        ELSE IF s.root[path].nil THEN s
        ELSE IF ip = NilIP /\ Len(path) > 0
        THEN [root |-> [p \in {q \in DOMAIN s.root : Len(q) < Len(path) \/ SubSeq(q, 1, Len(path)) # path}
                          |-> s.root[p]],
              wildcards |-> s.wildcards,
              ptrRecords |-> RemoveOwnedPTRs(RemoveOwnedPTRs(s.ptrRecords, domain, s.root[path].A),
                                             domain, s.root[path].AAAA)]
        ELSE LET d0 == s.root[path]
                 d1 == IF Len(To4(ip)) # 0 THEN [d0 EXCEPT !.A = removeIP(d0.A, ip)]
                       ELSE [d0 EXCEPT !.AAAA = removeIP(d0.AAAA, ip)]
                 d2 == IF Len(d1.A) = 0 /\ Len(d1.AAAA) = 0 THEN NilData ELSE d1
             IN  [root |-> [s.root EXCEPT ![path] = d2],
                  wildcards |-> s.wildcards,
                  ptrRecords |-> RemoveOwnedPTR(s.ptrRecords, domain, ip)]

\* the exact-name branch of RemoveRecord
RemoveRecordExact(s, domain, ip) ==
    LET path == domainToPath(domain)
    IN  IF ~WalkFinds(s.root, path) THEN s
        ELSE IF s.root[path].nil THEN s
        ELSE IF ip = NilIP
        THEN [root |-> [s.root EXCEPT ![path] = NilData],
              wildcards |-> s.wildcards,
              ptrRecords |-> RemoveOwnedPTRs(RemoveOwnedPTRs(s.ptrRecords, domain, s.root[path].A),
                                             domain, s.root[path].AAAA)]
        ELSE LET d0 == s.root[path]
                 d1 == IF Len(To4(ip)) # 0 THEN [d0 EXCEPT !.A = removeIP(d0.A, ip)]
                       ELSE [d0 EXCEPT !.AAAA = removeIP(d0.AAAA, ip)]
                 d2 == IF Len(d1.A) = 0 /\ Len(d1.AAAA) = 0 THEN NilData ELSE d1
             IN  [root |-> [s.root EXCEPT ![path] = d2],
                  wildcards |-> s.wildcards,
                  ptrRecords |-> RemoveOwnedPTR(s.ptrRecords, domain, ip)]

RemoveRecordStore(s, domain0, ip) ==
    LET domain == NormalizeDomain(domain0)
    IN  IF isWildcard(domain) THEN RemoveRecordWildcard(s, domain, ip)
        ELSE RemoveRecordExact(s, domain, ip)

RemovePTRRecordStore(s, ip) == [s EXCEPT !.ptrRecords = MapDelete(s.ptrRecords, IPString(ip))]

\* mutant: the PTR table survives
ClearStore_KeepPTR(s) == [NewDNSRecordStore EXCEPT !.ptrRecords = s.ptrRecords]

ClearStore(s) == NewDNSRecordStore

(***************************************************************************)
(* Addresses and reverse names used as inputs.                             *)
(***************************************************************************)
\* 10.0.0.1, 10.0.0.2, 2001:db8::1, and a 3-byte slice that is no address
IPv4a == <<10, 0, 0, 1>>
IPv4b == <<10, 0, 0, 2>>
IPv6a == <<32, 1, 13, 184, 0, 0, 0, 0, 0, 0, 0, 0, 0, 0, 0, 1>>
BadIP == <<1, 2, 3>>
ValidIPs == {IPv4a, IPv4b, IPv6a}
IPs == ValidIPs \cup {BadIP}

\* the reverse name of each address, computed once
ReverseName == [ip \in ValidIPs |-> IPToReverseDNS(ip)]

\* "1.0.0.10.IN-ADDR.ARPA" (other case, no trailing dot) and
\* "1.0.10.in-addr.arpa." (three labels)
RevUpper == <<"1",".","0",".","0",".","1","0",".","I","N","-","A","D","D","R",".","A","R","P","A">>
RevShort == <<"1",".","0",".","1","0",".","i","n","-","a","d","d","r",".","a","r","p","a",".">>

\* reverse names asked of the PTR queries
QueryRev == {ReverseName[ip] : ip \in ValidIPs} \cup {RevUpper, RevShort}

\* the reverse names in upper case and without the trailing dot
UpperChar(c) ==
    IF \E k \in 1..26 : LowerChars[k] = c
    THEN UpperChars[CHOOSE k \in 1..26 : LowerChars[k] = c]
    ELSE c
RevSpellings ==
    UNION {{[i \in 1..Len(n) |-> UpperChar(n[i])], SubSeq(n, 1, Len(n) - 1),
            [i \in 1..(Len(n) - 1) |-> UpperChar(n[i])]} : n \in {ReverseName[ip] : ip \in ValidIPs}}

\* names that are no reverse name: another suffix ("b.s.", "",
\* "1.0.0.10.arpa.", "in-addr.arpa.", "1.0.0.10.in-addr.arpa.s.",
\* "1.0.0.10.in-addr-arpa", the nibbles of 2001:db8::1 under
\* ".ip6.arpa.s."), not 4 labels before ".in-addr.arpa." (none, 1, 3 in
\* upper case, 5, 8), not 32 labels before ".ip6.arpa." (none, 4, 31, 33)
WrongSuffix ==
    {<<"b",".","s",".">>, <<>>, <<"1",".","0",".","0",".","1","0",".","a","r","p","a",".">>, <<"i","n","-","a","d","d","r",".","a","r","p","a",".">>, <<"1",".","0",".","0",".","1","0",".","i","n","-","a","d","d","r",".","a","r","p","a",".","s",".">>, <<"1",".","0",".","0",".","1","0",".","i","n","-","a","d","d","r","-","a","r","p","a">>,
     ReverseName[IPv6a] \o <<"s", ".">>}
WrongInAddr ==
    {InAddrArpa, <<"1">> \o InAddrArpa, RevShort, <<"1",".","0",".","1","0",".","I","N","-","A","D","D","R",".","A","R","P","A">>, <<"9",".","1",".","0",".","0",".","1","0",".","i","n","-","a","d","d","r",".","a","r","p","a",".">>, <<"1",".","0",".","0",".","1","0",".","1",".","0",".","0",".","1","0",".","i","n","-","a","d","d","r",".","a","r","p","a",".">>}
WrongIp6 ==
    {Ip6Arpa, <<"1",".","0",".","0",".","0",".","i","p","6",".","a","r","p","a",".">>, Tail(Tail(ReverseName[IPv6a])), <<"0", ".">> \o ReverseName[IPv6a]}
MalformedRev == WrongSuffix \cup WrongInAddr \cup WrongIp6

\* reverseDNSToIP, computed once for the reverse names above
reverseDNSToIPOfQueryRev == [n \in QueryRev \cup RevSpellings \cup MalformedRev |-> reverseDNSToIP(n)]
ReverseToIP(domain) ==
    IF domain \in DOMAIN reverseDNSToIPOfQueryRev
    THEN reverseDNSToIPOfQueryRev[domain] ELSE reverseDNSToIP(domain)

(***************************************************************************)
(* Queries.  Go iterates the wildcards map in an unspecified order: a      *)
(* query over it takes the order of one iteration as the parameter order,  *)
(* a sequence that lists every pattern of the map once.                    *)
(***************************************************************************)
Orders(m) ==
    {o \in [1..Cardinality(DOMAIN m) -> DOMAIN m] :
        \A i, j \in 1..Cardinality(DOMAIN m) : o[i] = o[j] => i = j}

\* mutant: the scan stops at the first matching pattern
RECURSIVE WildcardScan_FirstMatch(_, _, _, _, _)
WildcardScan_FirstMatch(wc, domain, recordType, order, i) ==
    IF i > Len(order) THEN <<>>
    ELSE IF ~matchWildcard(order[i], domain)
    THEN WildcardScan_FirstMatch(wc, domain, recordType, order, i + 1)
    ELSE IF recordType = RecordTypeA THEN wc[order[i]].A
    ELSE wc[order[i]].AAAA

\* the wildcard scan of GetRecords, over the patterns order[i..]
RECURSIVE WildcardScan(_, _, _, _, _)
WildcardScan(wc, domain, recordType, order, i) ==
    IF i > Len(order) THEN <<>>
    ELSE LET rs == wc[order[i]]
             rest == WildcardScan(wc, domain, recordType, order, i + 1)
         IN  IF ~matchWildcard(order[i], domain) THEN rest
             ELSE IF recordType = RecordTypeA THEN rs.A \o rest
             ELSE rs.AAAA \o rest

\* mutant: the wildcard lists are appended to the exact list
GetRecords_NoShortCircuit(s, domain0, recordType, order) ==
    LET domain == ToLower(Fqdn(domain0))
        path == domainToPath(domain)
        ips == IF WalkFinds(s.root, path) /\ ~s.root[path].nil
               THEN (IF recordType = RecordTypeA THEN s.root[path].A ELSE s.root[path].AAAA)
               ELSE <<>>
    IN  ips \o WildcardScan(s.wildcards, domain, recordType, order, 1)

\* mutant: an exact node with data answers, also with an empty list of the type
GetRecords_ExactStops(s, domain0, recordType, order) ==
    LET domain == ToLower(Fqdn(domain0))
        path == domainToPath(domain)
    IN  IF WalkFinds(s.root, path) /\ ~s.root[path].nil
        THEN (IF recordType = RecordTypeA THEN s.root[path].A ELSE s.root[path].AAAA)
        ELSE WildcardScan(s.wildcards, domain, recordType, order, 1)

GetRecords(s, domain0, recordType, order) ==
    LET domain == ToLower(Fqdn(domain0))
        path == domainToPath(domain)
        ips == IF WalkFinds(s.root, path) /\ ~s.root[path].nil
               THEN (IF recordType = RecordTypeA THEN s.root[path].A ELSE s.root[path].AAAA)
               ELSE <<>>
    IN  IF Len(ips) > 0 THEN ips
        ELSE WildcardScan(s.wildcards, domain, recordType, order, 1)

GetPTRRecord(s, domain) ==
    LET ip == ReverseToIP(domain)
    IN  IF ip = NilIP THEN [name |-> <<>>, found |-> FALSE]
        ELSE IF IPString(ip) \in DOMAIN s.ptrRecords
        THEN [name |-> s.ptrRecords[IPString(ip)], found |-> TRUE]
        ELSE [name |-> <<>>, found |-> FALSE]

\* mutant: only the exact name is looked up
HasRecord_ExactOnly(s, domain0, recordType) ==
    LET domain == ToLower(Fqdn(domain0))
        path == domainToPath(domain)
    IN  /\ WalkFinds(s.root, path)
        /\ ~s.root[path].nil
        /\ \/ recordType = RecordTypeA /\ Len(s.root[path].A) > 0
           \/ recordType = RecordTypeAAAA /\ Len(s.root[path].AAAA) > 0

\* mutant: a matching pattern answers whatever lists its entry holds
HasRecord_AnyList(s, domain0, recordType) ==
    LET domain == ToLower(Fqdn(domain0))
        path == domainToPath(domain)
    IN  \/ /\ WalkFinds(s.root, path)
           /\ ~s.root[path].nil
           /\ \/ recordType = RecordTypeA /\ Len(s.root[path].A) > 0
              \/ recordType = RecordTypeAAAA /\ Len(s.root[path].AAAA) > 0
        \/ \E pattern \in DOMAIN s.wildcards : matchWildcard(pattern, domain)

HasRecord(s, domain0, recordType) ==
    LET domain == ToLower(Fqdn(domain0))
        path == domainToPath(domain)
    IN  \/ /\ WalkFinds(s.root, path)
           /\ ~s.root[path].nil
           /\ \/ recordType = RecordTypeA /\ Len(s.root[path].A) > 0
              \/ recordType = RecordTypeAAAA /\ Len(s.root[path].AAAA) > 0
        \/ \E pattern \in DOMAIN s.wildcards :
              /\ matchWildcard(pattern, domain)
              /\ \/ recordType = RecordTypeA /\ Len(s.wildcards[pattern].A) > 0
                 \/ recordType = RecordTypeAAAA /\ Len(s.wildcards[pattern].AAAA) > 0

HasPTRRecord(s, domain) ==
    LET ip == ReverseToIP(domain)
    IN  ip # NilIP /\ IPString(ip) \in DOMAIN s.ptrRecords

(***************************************************************************)
(* The flat-map store, the other representation the source carries: the A  *)
(* and AAAA lists of the exact names and of the patterns in four maps      *)
(* keyed by the normalized name, and the PTR table.                        *)
(***************************************************************************)
FlatNewDNSRecordStore ==
    [aRecords |-> EmptyMap, aaaaRecords |-> EmptyMap,
     aWildcards |-> EmptyMap, aaaaWildcards |-> EmptyMap, ptrRecords |-> EmptyMap]

\* m[domain] = append(m[domain], ip); the list of a missing key is nil
FlatAppend(m, domain, ip) ==
    MapPut(m, domain, Append(IF domain \in DOMAIN m THEN m[domain] ELSE <<>>, ip))

\* m[domain] = removeIP(ips, ip) for a present key, deleted when empty
FlatRemoveIP(m, domain, ip) ==
    IF domain \notin DOMAIN m THEN m
    ELSE IF Len(removeIP(m[domain], ip)) = 0 THEN MapDelete(m, domain)
    ELSE MapPut(m, domain, removeIP(m[domain], ip))

\* the list of a key of a map, nil for a missing key
FlatList(m, domain) == IF domain \in DOMAIN m THEN m[domain] ELSE <<>>

FlatAddRecord(f, domain0, ip) ==
    LET domain == NormalizeDomain(domain0)
    IN  IF Len(To4(ip)) # 0
        THEN IF isWildcard(domain)
             THEN [f EXCEPT !.aWildcards = FlatAppend(f.aWildcards, domain, ip)]
             ELSE [f EXCEPT !.aRecords = FlatAppend(f.aRecords, domain, ip),
                            !.ptrRecords = MapPut(f.ptrRecords, IPString(ip), domain)]
        ELSE IF Len(To16(ip)) # 0
        THEN IF isWildcard(domain)
             THEN [f EXCEPT !.aaaaWildcards = FlatAppend(f.aaaaWildcards, domain, ip)]
             ELSE [f EXCEPT !.aaaaRecords = FlatAppend(f.aaaaRecords, domain, ip),
                            !.ptrRecords = MapPut(f.ptrRecords, IPString(ip), domain)]
        ELSE f

FlatAddPTRRecord(f, ip, domain0) ==
    [f EXCEPT !.ptrRecords = MapPut(f.ptrRecords, IPString(ip), NormalizeDomain(domain0))]

FlatRemoveRecord(f, domain0, ip) ==
    LET domain == NormalizeDomain(domain0)
    IN  IF ip = NilIP
        THEN IF isWildcard(domain)
             THEN [f EXCEPT !.aWildcards = MapDelete(f.aWildcards, domain),
                            !.aaaaWildcards = MapDelete(f.aaaaWildcards, domain)]
             ELSE [f EXCEPT !.ptrRecords =
                                RemoveOwnedPTRs(RemoveOwnedPTRs(f.ptrRecords, domain, FlatList(f.aRecords, domain)),
                                                domain, FlatList(f.aaaaRecords, domain)),
                            !.aRecords = MapDelete(f.aRecords, domain),
                            !.aaaaRecords = MapDelete(f.aaaaRecords, domain)]
        ELSE IF Len(To4(ip)) # 0
        THEN IF isWildcard(domain)
             THEN [f EXCEPT !.aWildcards = FlatRemoveIP(f.aWildcards, domain, ip)]
             ELSE IF domain \in DOMAIN f.aRecords
             THEN [f EXCEPT !.aRecords = FlatRemoveIP(f.aRecords, domain, ip),
                            !.ptrRecords = RemoveOwnedPTR(f.ptrRecords, domain, ip)]
             ELSE f
        ELSE IF Len(To16(ip)) # 0
        THEN IF isWildcard(domain)
             THEN [f EXCEPT !.aaaaWildcards = FlatRemoveIP(f.aaaaWildcards, domain, ip)]
             ELSE IF domain \in DOMAIN f.aaaaRecords
             THEN [f EXCEPT !.aaaaRecords = FlatRemoveIP(f.aaaaRecords, domain, ip),
                            !.ptrRecords = RemoveOwnedPTR(f.ptrRecords, domain, ip)]
             ELSE f
        ELSE f

FlatRemovePTRRecord(f, ip) == [f EXCEPT !.ptrRecords = MapDelete(f.ptrRecords, IPString(ip))]

FlatClear(f) == FlatNewDNSRecordStore

\* the maps GetRecords and HasRecord read for a record type
FlatExact(f, recordType) == IF recordType = RecordTypeA THEN f.aRecords ELSE f.aaaaRecords
FlatWild(f, recordType) == IF recordType = RecordTypeA THEN f.aWildcards ELSE f.aaaaWildcards

\* the wildcard loop of GetRecords over the patterns order[i..]
RECURSIVE FlatScan(_, _, _, _)
FlatScan(m, domain, order, i) ==
    IF i > Len(order) THEN <<>>
    ELSE IF matchWildcard(order[i], domain) THEN m[order[i]] \o FlatScan(m, domain, order, i + 1)
    ELSE FlatScan(m, domain, order, i + 1)

\* order is the iteration order of the wildcard map of the record type
FlatGetRecords(f, domain0, recordType, order) ==
    LET domain == ToLower(Fqdn(domain0))
    IN  IF recordType \notin {RecordTypeA, RecordTypeAAAA} THEN <<>>
        ELSE IF domain \in DOMAIN FlatExact(f, recordType) THEN FlatExact(f, recordType)[domain]
        ELSE FlatScan(FlatWild(f, recordType), domain, order, 1)

FlatGetPTRRecord(f, domain) ==
    LET ip == ReverseToIP(domain)
    IN  IF ip = NilIP THEN [name |-> <<>>, found |-> FALSE]
        ELSE IF IPString(ip) \in DOMAIN f.ptrRecords
        THEN [name |-> f.ptrRecords[IPString(ip)], found |-> TRUE]
        ELSE [name |-> <<>>, found |-> FALSE]

FlatHasRecord(f, domain0, recordType) ==
    LET domain == ToLower(Fqdn(domain0))
    IN  /\ recordType \in {RecordTypeA, RecordTypeAAAA}
        /\ \/ domain \in DOMAIN FlatExact(f, recordType)
           \/ \E pattern \in DOMAIN FlatWild(f, recordType) : matchWildcard(pattern, domain)

FlatHasPTRRecord(f, domain) ==
    LET ip == ReverseToIP(domain)
    IN  ip # NilIP /\ IPString(ip) \in DOMAIN f.ptrRecords

(***************************************************************************)
(* LocalResolver: the decision for one question.                           *)
(***************************************************************************)
Forward == [kind |-> "Forward", records |-> <<>>]
NoData == [kind |-> "NoData", records |-> <<>>]
Answer(records) == [kind |-> "Answer", records |-> records]

OtherType(qtype) == IF qtype = RecordTypeA THEN RecordTypeAAAA ELSE RecordTypeA

Resolve(s, qname, qtype, order) ==
    IF qtype = RecordTypePTR
    THEN LET r == GetPTRRecord(s, qname)
         IN  IF r.found THEN Answer(<<r.name>>) ELSE Forward
    ELSE LET ips == GetRecords(s, qname, qtype, order)
         IN  IF Len(ips) > 0 THEN Answer(ips)
             ELSE IF HasRecord(s, qname, OtherType(qtype)) THEN NoData
             ELSE Forward

(***************************************************************************)
(* Inputs of the operations.                                               *)
(***************************************************************************)
\* "a.s", "B.s.": exact names; "*.s.", "A?s": wildcard patterns
NameA == <<"a", ".", "s">>
NameB == <<"B", ".", "s", ".">>
PatStar == <<"*", ".", "s", ".">>
PatQ == <<"A", "?", "s">>
ExactNames == {NameA, NameB}
Patterns == {PatStar, PatQ}
Names == ExactNames \cup Patterns

\* arguments of the manual PTR operations
PTRIPs == {IPv4a}
PTRNames == {NameB}

\* names asked of the queries: the names above, "A.S", the wildcard base
\* "s.", a name only wildcards match ("c.s.") and a name nothing matches
QueryNames ==
    Names \cup {<<"A", ".", "S">>, <<"s", ".">>, <<"c", ".", "s", ".">>, <<"x", ".">>}

QueryTypes == {RecordTypeA, RecordTypeAAAA}

(***************************************************************************)
(* State machine of the store: one action per mutating operation.  last    *)
(* records the operation of the latest step, its arguments and whether it  *)
(* returned an error.                                                      *)
(***************************************************************************)
store == [root |-> root, wildcards |-> wildcards, ptrRecords |-> ptrRecords]

RECURSIVE SumLens(_, _)
SumLens(m, keys) ==
    IF keys = {} THEN 0
    ELSE LET k == CHOOSE x \in keys : TRUE
         IN  Len(m[k].A) + Len(m[k].AAAA) + SumLens(m, keys \ {k})

TotalRecords == SumLens(root, DOMAIN root) + SumLens(wildcards, DOMAIN wildcards)

SetStore(s) ==
    /\ root' = s.root
    /\ wildcards' = s.wildcards
    /\ ptrRecords' = s.ptrRecords

Op(op, domain, ip, err) == [op |-> op, domain |-> domain, ip |-> ip, err |-> err]

\* last is a history of the calls, not state of the store: a run that
\* starts with last = Unlogged keeps no history
Unlogged == Op("unlogged", <<>>, NilIP, FALSE)
Logged(o) == IF last = Unlogged THEN last ELSE o

\* the callers of the store: a call is idle, or at a position of an
\* operation with the operation's arguments; res is the reader's result
MaxCallers == 2
Callers == 1..MaxCallers

IdleCall ==
    [pc |-> "idle", op |-> "none", domain |-> <<>>, ip |-> NilIP, res |-> <<>>]

\* sync.RWMutex unlocked, nobody calling
LockIdle ==
    /\ mu = [w |-> FALSE, r |-> 0]
    /\ calls = [c \in Callers |-> IdleCall]
    /\ committed = NewDNSRecordStore

\* a slice header: its backing array (0: none) and its length; the nil slice
NilSlice == [arr |-> 0, len |-> 0]

\* no list is allocated and no caller holds a returned list
HeapIdle ==
    /\ arrays = EmptyMap
    /\ sets = EmptyMap
    /\ out = NilSlice
    /\ hLast = "caller"

\* no reverse-name conversion is under way
RevIdle ==
    /\ revIP = NilIP
    /\ revName = <<>>
    /\ revBack = NilIP
    /\ revPC = "idle"

Init ==
    /\ root = NewDNSRecordStore.root
    /\ wildcards = NewDNSRecordStore.wildcards
    /\ ptrRecords = NewDNSRecordStore.ptrRecords
    /\ last = Op("NewDNSRecordStore", <<>>, NilIP, FALSE)
    /\ mPattern = <<>>
    /\ mDomain = <<>>
    /\ mDone = FALSE
    /\ mResult = FALSE
    /\ mStack = <<>>
    /\ RevIdle
    /\ LockIdle
    /\ HeapIdle
    /\ flat = FlatNewDNSRecordStore
    /\ dns = DNSIdle

\* mutant: the record set is located or created before the address is checked
AddRecord_CreateFirst(domain, ip) ==
    /\ IF AddRecordFails(ip)
       THEN /\ SetStore(IF isWildcard(NormalizeDomain(domain))
                        THEN [store EXCEPT !.wildcards =
                                 MapPut(store.wildcards, NormalizeDomain(domain),
                                        IF NormalizeDomain(domain) \in DOMAIN store.wildcards
                                        THEN store.wildcards[NormalizeDomain(domain)] ELSE recordSet)]
                        ELSE [store EXCEPT !.root =
                                 [p \in (DOMAIN store.root) \cup
                                         {SubSeq(domainToPath(domain), 1, k) : k \in 0..Len(domainToPath(domain))}
                                    |-> IF p \in DOMAIN store.root THEN store.root[p] ELSE NilData]])
            /\ last' = Logged(Op("AddRecord", domain, ip, TRUE))
       ELSE /\ TotalRecords < MaxRecords
            /\ SetStore(AddRecordStore(store, domain, ip))
            /\ last' = Logged(Op("AddRecord", domain, ip, FALSE))
    /\ UNCHANGED <<dns, flat, heapVars, matchVars, revVars, lockVars>>

AddRecord(domain, ip) ==
    /\ IF AddRecordFails(ip)
       THEN /\ UNCHANGED storeVars
            /\ last' = Logged(Op("AddRecord", domain, ip, TRUE))
       ELSE /\ TotalRecords < MaxRecords
            /\ SetStore(AddRecordStore(store, domain, ip))
            /\ last' = Logged(Op("AddRecord", domain, ip, FALSE))
    /\ UNCHANGED <<dns, flat, heapVars, matchVars, revVars, lockVars>>

AddPTRRecord(ip, domain) ==
    /\ SetStore(AddPTRRecordStore(store, ip, domain))
    /\ last' = Logged(Op("AddPTRRecord", domain, ip, FALSE))
    /\ UNCHANGED <<dns, flat, heapVars, matchVars, revVars, lockVars>>

RemoveRecord(domain, ip) ==
    /\ SetStore(RemoveRecordStore(store, domain, ip))
    /\ last' = Logged(Op("RemoveRecord", domain, ip, FALSE))
    /\ UNCHANGED <<dns, flat, heapVars, matchVars, revVars, lockVars>>

RemovePTRRecord(ip) ==
    /\ SetStore(RemovePTRRecordStore(store, ip))
    /\ last' = Logged(Op("RemovePTRRecord", <<>>, ip, FALSE))
    /\ UNCHANGED <<dns, flat, heapVars, matchVars, revVars, lockVars>>

Clear ==
    /\ SetStore(ClearStore(store))
    /\ last' = Logged(Op("Clear", <<>>, NilIP, FALSE))
    /\ UNCHANGED <<dns, flat, heapVars, matchVars, revVars, lockVars>>

Next ==
    \/ \E d \in Names, ip \in IPs : AddRecord(d, ip)
    \/ \E ip \in PTRIPs, d \in PTRNames : AddPTRRecord(ip, d)
    \/ \E d \in Names, ip \in ValidIPs \cup {NilIP} : RemoveRecord(d, ip)
    \/ \E ip \in PTRIPs : RemovePTRRecord(ip)
    \/ Clear

Spec == Init /\ [][Next]_vars

\* the same store, run without the history of calls
InitStates ==
    /\ root = NewDNSRecordStore.root
    /\ wildcards = NewDNSRecordStore.wildcards
    /\ ptrRecords = NewDNSRecordStore.ptrRecords
    /\ last = Unlogged
    /\ mPattern = <<>>
    /\ mDomain = <<>>
    /\ mDone = FALSE
    /\ mResult = FALSE
    /\ mStack = <<>>
    /\ RevIdle
    /\ LockIdle
    /\ HeapIdle
    /\ flat = FlatNewDNSRecordStore
    /\ dns = DNSIdle

SpecStates == InitStates /\ [][Next]_vars

(***************************************************************************)
(* The store under the forward operations alone: AddRecord, RemoveRecord   *)
(* and Clear, with no AddPTRRecord and no RemovePTRRecord.                 *)
(***************************************************************************)
NextForward ==
    \/ \E d \in Names, ip \in IPs : AddRecord(d, ip)
    \/ \E d \in Names, ip \in ValidIPs \cup {NilIP} : RemoveRecord(d, ip)
    \/ Clear

SpecForward == InitStates /\ [][NextForward]_vars

(***************************************************************************)
(* The store of a name, its parent name, its child name and a sibling:     *)
(* "a.s.", "s.", "b.a.s." and "B.s.", with no pattern.                     *)
(***************************************************************************)
TrieNames == {<<"s", ".">>, NameA, <<"b", ".", "a", ".", "s", ".">>, NameB}
TrieIPs == {IPv4a, IPv6a}

NextTrie ==
    \/ \E d \in TrieNames, ip \in TrieIPs : AddRecord(d, ip)
    \/ \E d \in TrieNames, ip \in TrieIPs \cup {NilIP} : RemoveRecord(d, ip)
    \/ Clear

SpecTrie == InitStates /\ [][NextTrie]_vars

(***************************************************************************)
(* The two representations side by side: every call is made on the trie    *)
(* store and on the flat-map store.                                        *)
(***************************************************************************)
BothAddRecord(domain, ip) ==
    /\ IF AddRecordFails(ip)
       THEN UNCHANGED <<storeVars, flat>>
       ELSE /\ TotalRecords < MaxRecords
            /\ SetStore(AddRecordStore(store, domain, ip))
            /\ flat' = FlatAddRecord(flat, domain, ip)
    /\ UNCHANGED <<dns, heapVars, last, matchVars, revVars, lockVars>>

BothAddPTRRecord(ip, domain) ==
    /\ SetStore(AddPTRRecordStore(store, ip, domain))
    /\ flat' = FlatAddPTRRecord(flat, ip, domain)
    /\ UNCHANGED <<dns, heapVars, last, matchVars, revVars, lockVars>>

BothRemoveRecord(domain, ip) ==
    /\ SetStore(RemoveRecordStore(store, domain, ip))
    /\ flat' = FlatRemoveRecord(flat, domain, ip)
    /\ UNCHANGED <<dns, heapVars, last, matchVars, revVars, lockVars>>

BothRemovePTRRecord(ip) ==
    /\ SetStore(RemovePTRRecordStore(store, ip))
    /\ flat' = FlatRemovePTRRecord(flat, ip)
    /\ UNCHANGED <<dns, heapVars, last, matchVars, revVars, lockVars>>

BothClear ==
    /\ SetStore(ClearStore(store))
    /\ flat' = FlatClear(flat)
    /\ UNCHANGED <<dns, heapVars, last, matchVars, revVars, lockVars>>

NextBoth ==
    \/ \E d \in Names, ip \in IPs : BothAddRecord(d, ip)
    \/ \E ip \in PTRIPs, d \in PTRNames : BothAddPTRRecord(ip, d)
    \/ \E d \in Names, ip \in ValidIPs \cup {NilIP} : BothRemoveRecord(d, ip)
    \/ \E ip \in PTRIPs : BothRemovePTRRecord(ip)
    \/ BothClear

SpecBoth == InitStates /\ [][NextBoth]_vars

(***************************************************************************)
(* The store under the manual PTR operations: AddPTRRecord and             *)
(* RemovePTRRecord take every address and every exact name, while the      *)
(* forward records are those of one exact name and one pattern.            *)
(***************************************************************************)
PTRStoreNames == {NameA, PatStar}
PTRStoreIPs == {IPv4a, IPv6a}

NextPTR ==
    \/ \E d \in PTRStoreNames, ip \in PTRStoreIPs : AddRecord(d, ip)
    \/ \E ip \in ValidIPs, d \in ExactNames : AddPTRRecord(ip, d)
    \/ \E d \in PTRStoreNames, ip \in {IPv4a, NilIP} : RemoveRecord(d, ip)
    \/ \E ip \in ValidIPs : RemovePTRRecord(ip)
    \/ Clear

SpecPTR == InitStates /\ [][NextPTR]_vars

(***************************************************************************)
(* State machine for the matcher: a pattern and a name are drawn from all  *)
(* strings up to a length over a small alphabet; Match applies             *)
(* matchWildcard to them, and AddRecord stores the pattern in the (empty)  *)
(* store so that the queries can be asked about it.                        *)
(***************************************************************************)
PatternChars == {"a", ".", "*", "?"}
NameChars == {"a", "."}

SeqsUpTo(S, n) == UNION {[1..k -> S] : k \in 0..n}

InitMatch ==
    /\ root = NewDNSRecordStore.root
    /\ wildcards = NewDNSRecordStore.wildcards
    /\ ptrRecords = NewDNSRecordStore.ptrRecords
    /\ last = Op("NewDNSRecordStore", <<>>, NilIP, FALSE)
    /\ mPattern \in SeqsUpTo(PatternChars, MaxPatLen)
    /\ mDomain \in SeqsUpTo(NameChars, MaxNameLen)
    /\ mDone = FALSE
    /\ mResult = FALSE
    /\ mStack = <<>>
    /\ RevIdle
    /\ LockIdle
    /\ HeapIdle
    /\ flat = FlatNewDNSRecordStore
    /\ dns = DNSIdle

Match ==
    /\ ~mDone
    /\ mDone' = TRUE
    /\ mResult' = matchWildcard(mPattern, mDomain)
    /\ UNCHANGED <<dns, flat, heapVars, root, wildcards, ptrRecords, last, mPattern, mDomain, mStack, revVars, lockVars>>

AddPattern ==
    /\ TotalRecords = 0
    /\ AddRecord(mPattern, IPv4a)

NextMatch == Match \/ AddPattern

SpecMatch == InitMatch /\ [][NextMatch]_vars

(***************************************************************************)
(* State machine for the reverse-name conversions.  Either an address is   *)
(* drawn, ToReverse turns it into its reverse name and FromReverse turns   *)
(* that name back into an address; or a reverse name is drawn and          *)
(* FromReverse converts it.                                                *)
(***************************************************************************)
ByteValues == {0, 1, 10, 255}

\* 4-byte addresses, and 16-byte addresses that vary in the first group,
\* the sixth group and the last byte (the IPv4-mapped form included)
Addresses ==
    [1..4 -> ByteValues] \cup
    {[i \in 1..16 |-> IF i = 1 THEN a ELSE IF i = 2 THEN b ELSE IF i \in {11, 12} THEN c
                      ELSE IF i = 16 THEN d ELSE 0] : a, b, c, d \in ByteValues}

\* byte slices that are no address: nil, 3 bytes and 5 bytes
OtherLengths == {NilIP, BadIP, <<1, 2, 3, 4, 5>>}

\* labels put in place of nibble labels: empty, one nibble, two characters
LabelChoices == {<<>>, <<"0">>, <<"1">>, <<"0", "1">>}

\* the reverse name of 2001:db8::1 with labels 5 to 8 (the seventh group)
\* replaced
Ip6Inputs ==
    {SubSeq(ReverseName[IPv6a], 1, 8) \o Join(t, <<".">>) \o SubSeq(ReverseName[IPv6a], 16, Len(ReverseName[IPv6a]))
        : t \in [1..4 -> LabelChoices]}

\* in-addr.arpa names of 3, 4 and 5 labels
InAddrInputs ==
    {Join(t, <<".">>) \o InAddrArpa : t \in UNION {[1..k -> {<<"1">>, <<"0", "1">>}] : k \in 3..5}}

RevInputs == Ip6Inputs \cup InAddrInputs

InitReverse ==
    /\ root = NewDNSRecordStore.root
    /\ wildcards = NewDNSRecordStore.wildcards
    /\ ptrRecords = NewDNSRecordStore.ptrRecords
    /\ last = Unlogged
    /\ mPattern = <<>>
    /\ mDomain = <<>>
    /\ mDone = FALSE
    /\ mResult = FALSE
    /\ mStack = <<>>
    /\ LockIdle
    /\ HeapIdle
    /\ flat = FlatNewDNSRecordStore
    /\ dns = DNSIdle
    /\ revBack = NilIP
    /\ \/ revPC = "ip" /\ revIP \in Addresses \cup OtherLengths /\ revName = <<>>
       \/ revPC = "name" /\ revIP = NilIP /\ revName \in RevInputs

ToReverse ==
    /\ revPC = "ip"
    /\ revName' = IPToReverseDNS(revIP)
    /\ revPC' = "name"
    /\ UNCHANGED <<dns, flat, heapVars, storeVars, last, matchVars, lockVars, revIP, revBack>>

FromReverse ==
    /\ revPC = "name"
    /\ revBack' = reverseDNSToIP(revName)
    /\ revPC' = "done"
    /\ UNCHANGED <<dns, flat, heapVars, storeVars, last, matchVars, lockVars, revIP, revName>>

NextReverse == ToReverse \/ FromReverse

SpecReverse == InitReverse /\ [][NextReverse]_vars

(***************************************************************************)
(* State machine of concurrent callers.  Every operation takes s.mu (Lock  *)
(* for the mutators, RLock for the readers) on entry and releases it on    *)
(* return.  Between the two, a mutator writes the sub-structures one after *)
(* the other in the order of its code, and GetRecords / HasRecord read the *)
(* trie and then the wildcard map.  committed is the store of the          *)
(* operations in the order in which they took the lock.                    *)
(***************************************************************************)
Mutators == {"AddRecord", "AddPTRRecord", "RemoveRecord", "RemovePTRRecord", "Clear"}
ForwardReaders == {"GetRecords", "HasRecord"}
ReverseReaders == {"GetPTRRecord", "HasPTRRecord"}

LockNames == {NameA, PatStar}
LockIPs == {IPv4a}

\* the operation of a call, as one step
Apply(s, call) ==
    CASE call.op = "AddRecord" -> AddRecordStore(s, call.domain, call.ip)
      [] call.op = "AddPTRRecord" -> AddPTRRecordStore(s, call.ip, call.domain)
      [] call.op = "RemoveRecord" -> RemoveRecordStore(s, call.domain, call.ip)
      [] call.op = "RemovePTRRecord" -> RemovePTRRecordStore(s, call.ip)
      [] call.op = "Clear" -> ClearStore(s)

\* the first write of a mutator that holds the lock
FirstPC(s, call) ==
    LET domain == NormalizeDomain(call.domain)
        path == domainToPath(domain)
    IN  CASE call.op = "AddRecord" -> IF isWildcard(domain) THEN "wild" ELSE "trie"
          [] call.op \in {"AddPTRRecord", "RemovePTRRecord"} -> "ptr"
          [] call.op = "Clear" -> "root"
          [] call.op = "RemoveRecord" ->
                IF isWildcard(domain) THEN "wild"
                ELSE IF ~WalkFinds(s.root, path) THEN "Unlock"
                ELSE IF s.root[path].nil THEN "Unlock"
                ELSE IF call.ip = NilIP THEN "ptr" ELSE "trie"

\* the store after the write at call.pc
StepStore(s, call) ==
    LET domain == NormalizeDomain(call.domain)
        path == domainToPath(domain)
        isV4 == Len(To4(call.ip)) # 0
    IN  CASE call.op = "AddRecord" /\ call.pc = "trie" ->
                [s EXCEPT !.root = AddRecordExact(s, domain, call.ip, isV4).root]
          [] call.op = "AddRecord" /\ call.pc = "ptr" ->
                [s EXCEPT !.ptrRecords = AddRecordPTR(s.ptrRecords, domain, call.ip)]
          [] call.op = "AddRecord" /\ call.pc = "wild" -> AddRecordWildcard(s, domain, call.ip, isV4)
          [] call.op = "AddPTRRecord" -> AddPTRRecordStore(s, call.ip, call.domain)
          [] call.op = "RemovePTRRecord" -> RemovePTRRecordStore(s, call.ip)
          [] call.op = "Clear" /\ call.pc = "root" -> [s EXCEPT !.root = NewDNSRecordStore.root]
          [] call.op = "Clear" /\ call.pc = "wild" -> [s EXCEPT !.wildcards = NewDNSRecordStore.wildcards]
          [] call.op = "Clear" /\ call.pc = "ptr" -> [s EXCEPT !.ptrRecords = NewDNSRecordStore.ptrRecords]
          [] call.op = "RemoveRecord" /\ call.pc = "wild" -> RemoveRecordWildcard(s, domain, call.ip)
          [] call.op = "RemoveRecord" /\ call.pc = "ptr" /\ call.ip = NilIP ->
                [s EXCEPT !.ptrRecords =
                    RemoveOwnedPTRs(RemoveOwnedPTRs(s.ptrRecords, domain, s.root[path].A),
                                    domain, s.root[path].AAAA)]
          [] call.op = "RemoveRecord" /\ call.pc = "trie" /\ call.ip = NilIP ->
                [s EXCEPT !.root = [s.root EXCEPT ![path] = NilData]]
          [] call.op = "RemoveRecord" /\ call.pc = "trie" /\ call.ip # NilIP ->
                [s EXCEPT !.root = [s.root EXCEPT ![path] =
                    IF isV4 THEN [s.root[path] EXCEPT !.A = removeIP(s.root[path].A, call.ip)]
                    ELSE [s.root[path] EXCEPT !.AAAA = removeIP(s.root[path].AAAA, call.ip)]]]
          [] call.op = "RemoveRecord" /\ call.pc = "ptr" /\ call.ip # NilIP ->
                [s EXCEPT !.ptrRecords = RemoveOwnedPTR(s.ptrRecords, domain, call.ip)]
          [] call.op = "RemoveRecord" /\ call.pc = "data" ->
                IF Len(s.root[path].A) = 0 /\ Len(s.root[path].AAAA) = 0
                THEN [s EXCEPT !.root = [s.root EXCEPT ![path] = NilData]] ELSE s

\* the position after the write at call.pc
StepPC(call) ==
    CASE call.op = "AddRecord" /\ call.pc = "trie" -> "ptr"
      [] call.op = "Clear" /\ call.pc = "root" -> "wild"
      [] call.op = "Clear" /\ call.pc = "wild" -> "ptr"
      [] call.op = "RemoveRecord" /\ call.pc = "ptr" /\ call.ip = NilIP -> "trie"
      [] call.op = "RemoveRecord" /\ call.pc = "trie" /\ call.ip # NilIP -> "ptr"
      [] call.op = "RemoveRecord" /\ call.pc = "ptr" /\ call.ip # NilIP -> "data"
      [] OTHER -> "Unlock"

WritePCs == {"trie", "ptr", "wild", "root", "data"}

SetCall(c, call) == calls' = [calls EXCEPT ![c] = call]

\* the records of the store and of the AddRecord calls under way are fewer than n
Room(n) == TotalRecords + Cardinality({c \in Callers : calls[c].op = "AddRecord"}) < n

\* a caller enters an operation
StartCall(c, op, domain, ip) ==
    /\ calls[c].pc = "idle"
    /\ SetCall(c, [IdleCall EXCEPT !.pc = IF op \in Mutators THEN "Lock" ELSE "RLock",
                                   !.op = op, !.domain = domain, !.ip = ip])
    /\ UNCHANGED <<dns, flat, heapVars, storeVars, last, matchVars, revVars, mu, committed>>

\* mutant: s.mu.Lock() does not wait for the readers
Lock_IgnoreReaders(c) ==
    /\ calls[c].pc = "Lock"
    /\ ~mu.w
    /\ mu' = [mu EXCEPT !.w = TRUE]
    /\ committed' = Apply(committed, calls[c])
    /\ SetCall(c, [calls[c] EXCEPT !.pc = FirstPC(store, calls[c])])
    /\ UNCHANGED <<dns, flat, heapVars, storeVars, last, matchVars, revVars>>

\* s.mu.Lock(): no writer and no reader holds the mutex
Lock(c) ==
    /\ calls[c].pc = "Lock"
    /\ ~mu.w /\ mu.r = 0
    /\ mu' = [mu EXCEPT !.w = TRUE]
    /\ committed' = Apply(committed, calls[c])
    /\ SetCall(c, [calls[c] EXCEPT !.pc = FirstPC(store, calls[c])])
    /\ UNCHANGED <<dns, flat, heapVars, storeVars, last, matchVars, revVars>>

\* one write of a mutator to the trie, the wildcard map or the PTR map
Write(c) ==
    /\ calls[c].op \in Mutators
    /\ calls[c].pc \in WritePCs
    /\ SetStore(StepStore(store, calls[c]))
    /\ SetCall(c, [calls[c] EXCEPT !.pc = StepPC(calls[c])])
    /\ UNCHANGED <<dns, flat, heapVars, last, matchVars, revVars, mu, committed>>

\* defer s.mu.Unlock()
Unlock(c) ==
    /\ calls[c].pc = "Unlock"
    /\ mu' = [mu EXCEPT !.w = FALSE]
    /\ SetCall(c, IdleCall)
    /\ UNCHANGED <<dns, flat, heapVars, storeVars, last, matchVars, revVars, committed>>

\* s.mu.RLock(): no writer holds the mutex
RLock(c) ==
    /\ calls[c].pc = "RLock"
    /\ ~mu.w
    /\ mu' = [mu EXCEPT !.r = mu.r + 1]
    /\ SetCall(c, [calls[c] EXCEPT !.pc = IF calls[c].op \in ForwardReaders THEN "exact" ELSE "lookup"])
    /\ UNCHANGED <<dns, flat, heapVars, storeVars, last, matchVars, revVars, committed>>

\* GetRecords / HasRecord walk the trie
ReadExact(c) ==
    /\ calls[c].op \in ForwardReaders
    /\ calls[c].pc = "exact"
    /\ LET exactOnly == [store EXCEPT !.wildcards = EmptyMap]
           ips == GetRecords(exactOnly, calls[c].domain, RecordTypeA, <<>>)
       IN  IF Len(ips) > 0
           THEN SetCall(c, [calls[c] EXCEPT !.pc = "RUnlock",
                                           !.res = IF calls[c].op = "GetRecords" THEN ips ELSE TRUE])
           ELSE SetCall(c, [calls[c] EXCEPT !.pc = "scan"])
    /\ UNCHANGED <<dns, flat, heapVars, storeVars, last, matchVars, revVars, mu, committed>>

\* GetRecords / HasRecord iterate the wildcard map
ReadWildcards(c) ==
    /\ calls[c].op \in ForwardReaders
    /\ calls[c].pc = "scan"
    /\ \E order \in Orders(wildcards) :
          LET records == WildcardScan(wildcards, ToLower(Fqdn(calls[c].domain)), RecordTypeA, order, 1)
          IN  SetCall(c, [calls[c] EXCEPT !.pc = "RUnlock",
                                         !.res = IF calls[c].op = "GetRecords" THEN records
                                                 ELSE Len(records) > 0])
    /\ UNCHANGED <<dns, flat, heapVars, storeVars, last, matchVars, revVars, mu, committed>>

\* GetPTRRecord / HasPTRRecord look the address up in the PTR map
ReadPTR(c) ==
    /\ calls[c].op \in ReverseReaders
    /\ calls[c].pc = "lookup"
    /\ SetCall(c, [calls[c] EXCEPT !.pc = "RUnlock",
                                   !.res = IF calls[c].op = "GetPTRRecord"
                                           THEN GetPTRRecord(store, calls[c].domain)
                                           ELSE HasPTRRecord(store, calls[c].domain)])
    /\ UNCHANGED <<dns, flat, heapVars, storeVars, last, matchVars, revVars, mu, committed>>

\* defer s.mu.RUnlock(): the reader returns its result
RUnlock(c) ==
    /\ calls[c].pc = "RUnlock"
    /\ mu' = [mu EXCEPT !.r = mu.r - 1]
    /\ SetCall(c, IdleCall)
    /\ UNCHANGED <<dns, flat, heapVars, storeVars, last, matchVars, revVars, committed>>

InitLocked ==
    /\ root = NewDNSRecordStore.root
    /\ wildcards = NewDNSRecordStore.wildcards
    /\ ptrRecords = NewDNSRecordStore.ptrRecords
    /\ last = Unlogged
    /\ mPattern = <<>>
    /\ mDomain = <<>>
    /\ mDone = FALSE
    /\ mResult = FALSE
    /\ mStack = <<>>
    /\ RevIdle
    /\ LockIdle
    /\ HeapIdle
    /\ flat = FlatNewDNSRecordStore
    /\ dns = DNSIdle

NextLocked ==
    \/ \E c \in Callers, d \in LockNames, ip \in LockIPs :
          Room(MaxRecords) /\ StartCall(c, "AddRecord", d, ip)
    \/ \E c \in Callers, ip \in LockIPs : StartCall(c, "AddPTRRecord", NameB, ip)
    \/ \E c \in Callers, d \in LockNames, ip \in LockIPs \cup {NilIP} : StartCall(c, "RemoveRecord", d, ip)
    \/ \E c \in Callers, ip \in LockIPs : StartCall(c, "RemovePTRRecord", <<>>, ip)
    \/ \E c \in Callers : StartCall(c, "Clear", <<>>, NilIP)
    \/ \E c \in Callers, op \in ForwardReaders : StartCall(c, op, NameA, NilIP)
    \/ \E c \in Callers, op \in ReverseReaders, ip \in LockIPs : StartCall(c, op, ReverseName[ip], NilIP)
    \/ \E c \in Callers : Lock(c)
    \/ \E c \in Callers : Write(c)
    \/ \E c \in Callers : Unlock(c)
    \/ \E c \in Callers : RLock(c)
    \/ \E c \in Callers : ReadExact(c)
    \/ \E c \in Callers : ReadWildcards(c)
    \/ \E c \in Callers : ReadPTR(c)
    \/ \E c \in Callers : RUnlock(c)

SpecLocked == InitLocked /\ [][NextLocked]_vars

(***************************************************************************)
(* Concurrent callers that add three addresses to, and remove them from,   *)
(* one exact name and one pattern, and ask for the lists.                  *)
(***************************************************************************)
\* most addresses in the lists
MaxListLen == 3

\* 10.0.0.3
IPv4c == <<10, 0, 0, 3>>
OrderIPs == {IPv4a, IPv4b, IPv4c}
\* the addresses given to the pattern
PatternIPs == {IPv4a, IPv4b}
\* the address given to RemoveRecord
RemovedIPs == {IPv4a}
\* "a.s": the name itself and, while it holds no address, the pattern "*.s." answer
OrderQueries == {NameA}

NextOrder ==
    \/ \E c \in Callers, d \in LockNames, ip \in OrderIPs :
          /\ isWildcard(d) => ip \in PatternIPs
          /\ Room(MaxListLen)
          /\ StartCall(c, "AddRecord", d, ip)
    \/ \E c \in Callers, d \in LockNames, ip \in RemovedIPs : StartCall(c, "RemoveRecord", d, ip)
    \/ \E c \in Callers, d \in OrderQueries : StartCall(c, "GetRecords", d, NilIP)
    \/ \E c \in Callers : Lock(c)
    \/ \E c \in Callers : Write(c)
    \/ \E c \in Callers : Unlock(c)
    \/ \E c \in Callers : RLock(c)
    \/ \E c \in Callers : ReadExact(c)
    \/ \E c \in Callers : ReadWildcards(c)
    \/ \E c \in Callers : RUnlock(c)

SpecOrder == InitLocked /\ [][NextOrder]_vars

(***************************************************************************)
(* The recursion of matchWildcardInternal, one call or return per step.    *)
(* mStack is the call stack: a frame holds the arguments pi and di, the    *)
(* place the call waits at (loop: the for loop of a leading "*.", skip:    *)
(* the call that skips a "*", tail: a call whose result is returned as it  *)
(* is), the loop variable i and, once it has returned, the result.         *)
(***************************************************************************)
StepPatterns ==
    { <<>>, <<"a", ".">>, <<"*">>, <<"*", ".">>, <<"*", ".", "a", ".">>,
      <<"*", ".", "*", ".">>, <<"*", "*">>, <<"*", "*", "a">>, <<"a", "*", ".", "*">>,
      <<"*", "?", "*">>, <<"?", ".">>, <<"*", ".", "*", "*">>, <<"*", "a", "*", ".">> }

Frame(pi, di) == [pi |-> pi, di |-> di, pc |-> "enter", i |-> 0, res |-> FALSE]

\* return r from the frame on top
Returned(stack, r) ==
    [stack EXCEPT ![Len(stack)] = [@ EXCEPT !.pc = "ret", !.res = r]]

\* the frame on top calls matchWildcardInternal(pattern, domain, callee.pi, callee.di)
Called(stack, pc, i, callee) ==
    Append([stack EXCEPT ![Len(stack)] = [@ EXCEPT !.pc = pc, !.i = i]], callee)

\* the arguments of the call that lets "*" take one more character
StarRest_Stay(pi, di) == Frame(pi, di)

StarRest(pi, di) == Frame(pi, di + 1)

\* the body of matchWildcardInternal up to its first recursive call or return
Enter(pattern, domain, stack) ==
    LET f == stack[Len(stack)]
        pi == f.pi
        di == f.di
        plen == Len(pattern)
        dlen == Len(domain)
    IN  IF pi = plen /\ di = dlen THEN Returned(stack, TRUE)
        ELSE IF pi = plen THEN Returned(stack, FALSE)
        ELSE IF pattern[pi + 1] = "*"
        THEN IF pi = 0 /\ pi + 1 < plen /\ pattern[pi + 2] = "."
             THEN IF di = dlen THEN Returned(stack, FALSE)
                  ELSE Called(stack, "loop", di + 1, Frame(pi + 1, di + 1))
             ELSE Called(stack, "skip", 0, Frame(pi + 1, di))
        ELSE IF pattern[pi + 1] = "?"
        THEN IF di >= dlen THEN Returned(stack, FALSE)
             ELSE Called(stack, "tail", 0, Frame(pi + 1, di + 1))
        ELSE IF di >= dlen \/ pattern[pi + 1] # domain[di + 1] THEN Returned(stack, FALSE)
        ELSE Called(stack, "tail", 0, Frame(pi + 1, di + 1))

\* the body of matchWildcardInternal after the call it waits for returned r
Resume(domain, stack, r) ==
    LET g == stack[Len(stack)]
        dlen == Len(domain)
    IN  IF g.pc = "loop"
        THEN IF r THEN Returned(stack, TRUE)
             ELSE IF g.i + 1 <= dlen THEN Called(stack, "loop", g.i + 1, Frame(g.pi + 1, g.i + 1))
             ELSE Returned(stack, FALSE)
        ELSE IF g.pc = "skip"
        THEN IF r THEN Returned(stack, TRUE)
             ELSE IF g.di < dlen THEN Called(stack, "tail", 0, StarRest(g.pi, g.di))
             ELSE Returned(stack, FALSE)
        ELSE Returned(stack, r)

\* matchWildcard calls matchWildcardInternal(pattern, domain, 0, 0)
MatchBegin ==
    /\ ~mDone
    /\ mStack = <<>>
    /\ mStack' = <<Frame(0, 0)>>
    /\ UNCHANGED <<dns, flat, heapVars, storeVars, last, mPattern, mDomain, mDone, mResult, revVars, lockVars>>

MatchEnter ==
    /\ mStack # <<>>
    /\ mStack[Len(mStack)].pc = "enter"
    /\ mStack' = Enter(mPattern, mDomain, mStack)
    /\ UNCHANGED <<dns, flat, heapVars, storeVars, last, mPattern, mDomain, mDone, mResult, revVars, lockVars>>

MatchReturn ==
    /\ Len(mStack) > 1
    /\ mStack[Len(mStack)].pc = "ret"
    /\ mStack' = Resume(mDomain, SubSeq(mStack, 1, Len(mStack) - 1), mStack[Len(mStack)].res)
    /\ UNCHANGED <<dns, flat, heapVars, storeVars, last, mPattern, mDomain, mDone, mResult, revVars, lockVars>>

MatchEnd ==
    /\ Len(mStack) = 1
    /\ mStack[1].pc = "ret"
    /\ mStack' = <<>>
    /\ mDone' = TRUE
    /\ mResult' = mStack[1].res
    /\ UNCHANGED <<dns, flat, heapVars, storeVars, last, mPattern, mDomain, revVars, lockVars>>

InitRecursion ==
    /\ root = NewDNSRecordStore.root
    /\ wildcards = NewDNSRecordStore.wildcards
    /\ ptrRecords = NewDNSRecordStore.ptrRecords
    /\ last = Unlogged
    /\ mPattern \in StepPatterns
    /\ mDomain \in SeqsUpTo(NameChars, MaxNameLen)
    /\ mDone = FALSE
    /\ mResult = FALSE
    /\ mStack = <<>>
    /\ RevIdle
    /\ LockIdle
    /\ HeapIdle
    /\ flat = FlatNewDNSRecordStore
    /\ dns = DNSIdle

NextRecursion == MatchBegin \/ MatchEnter \/ MatchReturn \/ MatchEnd

\* a call that has started keeps running
SpecRecursion == InitRecursion /\ [][NextRecursion]_vars /\ WF_vars(NextRecursion)

(***************************************************************************)
(* The DNS override.  SetupDNSOverride detects the DNS manager, constructs *)
(* its configurator, falls back to the file-based one, and hands the       *)
(* configurator to setDNS.  The platform calls succeed or fail as the      *)
(* system decides; log lists the calls of the operation under way with     *)
(* their outcome.  A failed constructor leaves a value in configurator     *)
(* that the platform package chooses; RestoreDNSOverride is followed only  *)
(* from nil and from a constructed configurator.                           *)
(***************************************************************************)
MaxSetups == 2

DetectedManagers == {"systemd-resolved", "NetworkManager", "resolvconf"}
ManagerTypes == DetectedManagers \cup {"file", "unknown"}

Logged1(call, who, ok) == Append(dns.log, [call |-> call, who |-> who, ok |-> ok])

\* setDNS after conf.GetCurrentDNS(): a failure is logged, SetDNS follows
AfterGetCurrentDNS_Return(ok) == IF ok THEN "SetDNS" ELSE "return"

AfterGetCurrentDNS(ok) == "SetDNS"

\* managerType := platform.DetectDNSManager(interfaceName); switch managerType
SetupDetect(m) ==
    /\ dns.pc = "idle"
    /\ dns.setups < MaxSetups
    /\ dns' = [dns EXCEPT !.pc = IF m \in DetectedManagers THEN "construct" ELSE "fallback",
                          !.manager = m, !.log = <<>>, !.err = "nil", !.setups = @ + 1]
    /\ UNCHANGED <<flat, heapVars, storeVars, last, matchVars, revVars, lockVars>>

\* configurator, err = platform.New...DNSConfigurator(interfaceName)
SetupConstruct(ok) ==
    /\ dns.pc = "construct"
    /\ dns' = [dns EXCEPT !.pc = IF ok THEN "GetCurrentDNS" ELSE "fallback",
                          !.configurator = IF ok THEN dns.manager ELSE "invalid",
                          !.log = Logged1("New", dns.manager, ok)]
    /\ UNCHANGED <<flat, heapVars, storeVars, last, matchVars, revVars, lockVars>>

\* configurator, err = platform.NewFileDNSConfigurator()
SetupFallback(ok) ==
    /\ dns.pc = "fallback"
    /\ dns' = [dns EXCEPT !.pc = IF ok THEN "GetCurrentDNS" ELSE "return",
                          !.configurator = IF ok THEN "file" ELSE "invalid",
                          !.err = IF ok THEN "nil" ELSE "failed to create file DNS configurator",
                          !.log = Logged1("New", "file", ok)]
    /\ UNCHANGED <<flat, heapVars, storeVars, last, matchVars, revVars, lockVars>>

\* currentDNS, err := conf.GetCurrentDNS()
SetDNSGetCurrent(ok) ==
    /\ dns.pc = "GetCurrentDNS"
    /\ dns' = [dns EXCEPT !.pc = AfterGetCurrentDNS(ok),
                          !.log = Logged1("GetCurrentDNS", dns.configurator, ok)]
    /\ UNCHANGED <<flat, heapVars, storeVars, last, matchVars, revVars, lockVars>>

\* originalDNS, err := conf.SetDNS(newDNS)
SetDNSSet(ok) ==
    /\ dns.pc = "SetDNS"
    /\ dns' = [dns EXCEPT !.pc = "return",
                          !.err = IF ok THEN "nil" ELSE "failed to set DNS",
                          !.log = Logged1("SetDNS", dns.configurator, ok)]
    /\ UNCHANGED <<flat, heapVars, storeVars, last, matchVars, revVars, lockVars>>

SetupReturn ==
    /\ dns.pc = "return"
    /\ dns' = [dns EXCEPT !.pc = "idle"]
    /\ UNCHANGED <<flat, heapVars, storeVars, last, matchVars, revVars, lockVars>>

RestoreDNSOverride(ok) ==
    /\ dns.pc = "idle"
    /\ dns.configurator # "invalid"
    /\ dns' = IF dns.configurator = "nil"
              THEN [dns EXCEPT !.log = <<>>, !.err = "nil"]
              ELSE [dns EXCEPT !.log = <<[call |-> "RestoreDNS", who |-> dns.configurator, ok |-> ok]>>,
                               !.err = IF ok THEN "nil" ELSE "failed to restore DNS"]
    /\ UNCHANGED <<flat, heapVars, storeVars, last, matchVars, revVars, lockVars>>

NextOverride ==
    \/ \E m \in ManagerTypes : SetupDetect(m)
    \/ \E ok \in BOOLEAN : SetupConstruct(ok)
    \/ \E ok \in BOOLEAN : SetupFallback(ok)
    \/ \E ok \in BOOLEAN : SetDNSGetCurrent(ok)
    \/ \E ok \in BOOLEAN : SetDNSSet(ok)
    \/ SetupReturn
    \/ \E ok \in BOOLEAN : RestoreDNSOverride(ok)

SpecOverride == InitStates /\ [][NextOverride]_vars

(***************************************************************************)
(* Resolve under concurrent mutation.  Resolve calls GetRecords and, when  *)
(* the result is empty, HasRecord for the sibling type; each of the two    *)
(* calls holds the read lock of the store for its own duration, so each is *)
(* one step here, and the mutators, which hold the write lock for theirs,  *)
(* are one step each and may run between the two.  seen collects the       *)
(* decisions of the sequential algorithm on the store states that existed  *)
(* since the call started.                                                 *)
(***************************************************************************)
ResolveNames == {NameA, PatStar}
ResolveIPs == {IPv4a, IPv6a}

ResolveIdle == [pc |-> "idle", qname |-> <<>>, qtype |-> RecordTypeA, res |-> Forward, seen |-> {}]

\* the decisions of the sequential algorithm on the store s
Decisions(s, qname, qtype) == {Resolve(s, qname, qtype, order) : order \in Orders(s.wildcards)}

\* the calls under way have seen the store s as well
Seen(s) ==
    [c \in Callers |->
        IF calls[c].pc \in {"GetRecords", "HasRecord"}
        THEN [calls[c] EXCEPT !.seen = @ \cup Decisions(s, calls[c].qname, calls[c].qtype)]
        ELSE calls[c]]

\* a mutator runs from Lock to Unlock
Mutate(s) ==
    /\ SetStore(s)
    /\ calls' = Seen(s)
    /\ UNCHANGED <<dns, flat, heapVars, last, matchVars, revVars, mu, committed>>

ResolveStart(c, qname, qtype) ==
    /\ calls[c].pc = "idle"
    /\ SetCall(c, [ResolveIdle EXCEPT !.pc = "GetRecords", !.qname = qname, !.qtype = qtype,
                                      !.seen = Decisions(store, qname, qtype)])
    /\ UNCHANGED <<dns, flat, heapVars, storeVars, last, matchVars, revVars, mu, committed>>

\* step 1: GetRecords(qname, qtype), non-empty -> Answer
ResolveGetRecords(c) ==
    /\ calls[c].pc = "GetRecords"
    /\ \E order \in Orders(wildcards) :
          LET ips == GetRecords(store, calls[c].qname, calls[c].qtype, order)
          IN  IF Len(ips) > 0
              THEN SetCall(c, [calls[c] EXCEPT !.pc = "return", !.res = Answer(ips)])
              ELSE SetCall(c, [calls[c] EXCEPT !.pc = "HasRecord"])
    /\ UNCHANGED <<dns, flat, heapVars, storeVars, last, matchVars, revVars, mu, committed>>

\* steps 2 and 3: HasRecord(qname, other(qtype)) -> NoData, else Forward
ResolveHasRecord(c) ==
    /\ calls[c].pc = "HasRecord"
    /\ SetCall(c, [calls[c] EXCEPT !.pc = "return",
                                   !.res = IF HasRecord(store, calls[c].qname, OtherType(calls[c].qtype))
                                           THEN NoData ELSE Forward])
    /\ UNCHANGED <<dns, flat, heapVars, storeVars, last, matchVars, revVars, mu, committed>>

ResolveReturn(c) ==
    /\ calls[c].pc = "return"
    /\ SetCall(c, ResolveIdle)
    /\ UNCHANGED <<dns, flat, heapVars, storeVars, last, matchVars, revVars, mu, committed>>

InitResolve ==
    /\ root = NewDNSRecordStore.root
    /\ wildcards = NewDNSRecordStore.wildcards
    /\ ptrRecords = NewDNSRecordStore.ptrRecords
    /\ last = Unlogged
    /\ mPattern = <<>>
    /\ mDomain = <<>>
    /\ mDone = FALSE
    /\ mResult = FALSE
    /\ mStack = <<>>
    /\ RevIdle
    /\ mu = [w |-> FALSE, r |-> 0]
    /\ calls = [c \in Callers |-> ResolveIdle]
    /\ committed = NewDNSRecordStore
    /\ HeapIdle
    /\ flat = FlatNewDNSRecordStore
    /\ dns = DNSIdle

NextResolve ==
    \/ \E d \in ResolveNames, ip \in ResolveIPs :
          TotalRecords < MaxRecords /\ Mutate(AddRecordStore(store, d, ip))
    \/ \E d \in ResolveNames, ip \in ResolveIPs \cup {NilIP} : Mutate(RemoveRecordStore(store, d, ip))
    \/ Mutate(ClearStore(store))
    \/ \E c \in Callers, qtype \in QueryTypes : ResolveStart(c, NameA, qtype)
    \/ \E c \in Callers : ResolveGetRecords(c)
    \/ \E c \in Callers : ResolveHasRecord(c)
    \/ \E c \in Callers : ResolveReturn(c)

SpecResolve == InitResolve /\ [][NextResolve]_vars

(***************************************************************************)
(* The lists of the store in memory.  A []net.IP is a slice header over a  *)
(* backing array: arrays maps the allocated arrays to their elements (the  *)
(* length of an array is its capacity), sets maps a normalized name (exact *)
(* or pattern) that has a recordSet to the headers of its A and AAAA       *)
(* lists, out is the header GetRecords returned to the caller.  The        *)
(* capacity append allocates beyond the length is the runtime's choice,    *)
(* drawn from Spares.  Arrays that no header refers to are collected.      *)
(***************************************************************************)
\* append allocates exactly the new length, or room for one more element
Spares == {0, 1}

Cap(h, s) == IF s.arr = 0 THEN 0 ELSE Len(h[s.arr])

\* the elements seen through a header
Elems(h, s) == IF s.arr = 0 THEN <<>> ELSE SubSeq(h[s.arr], 1, s.len)

\* the array the allocator hands out
NewArray(h) == CHOOSE n \in 1..(Cardinality(DOMAIN h) + 1) :
                   n \notin DOMAIN h /\ \A m \in 1..(n - 1) : m \in DOMAIN h

Zeros(n) == [i \in 1..n |-> NilIP]

\* append(s, ips...): in place when the capacity suffices, else into a new array
appendSlice(h, s, ips, spare) ==
    IF Len(ips) = 0 THEN [heap |-> h, slice |-> s]
    ELSE IF s.len + Len(ips) <= Cap(h, s)
    THEN [heap |-> [h EXCEPT ![s.arr] = SubSeq(@, 1, s.len) \o ips
                                         \o SubSeq(@, s.len + Len(ips) + 1, Len(@))],
          slice |-> [s EXCEPT !.len = @ + Len(ips)]]
    ELSE [heap |-> MapPut(h, NewArray(h), Elems(h, s) \o ips \o Zeros(spare)),
          slice |-> [arr |-> NewArray(h), len |-> s.len + Len(ips)]]

\* removeIP: result := make([]net.IP, 0, len(ips)), then the kept elements are appended
removeIPSlice(h, s, toRemove) ==
    LET kept == removeIP(Elems(h, s), toRemove)
    IN  [heap |-> MapPut(h, NewArray(h), kept \o Zeros(s.len - Len(kept))),
         slice |-> [arr |-> NewArray(h), len |-> Len(kept)]]

\* mutant: GetRecords returns the list it found
copyOut_Alias(h, s) == [heap |-> h, slice |-> s]

\* out := make([]net.IP, len(ips)); copy(out, ips); return out
copyOut(h, s) ==
    [heap |-> MapPut(h, NewArray(h), Elems(h, s)),
     slice |-> [arr |-> NewArray(h), len |-> s.len]]

\* the header of the list of a type in a record set
TypeSlice(rs, recordType) == IF recordType = RecordTypeA THEN rs.A ELSE rs.AAAA

\* the wildcard scan of GetRecords: records = append(records, rs.A...)
RECURSIVE WildcardScanSlice(_, _, _, _, _, _, _, _)
WildcardScanSlice(h, ss, domain, recordType, order, i, records, spare) ==
    IF i > Len(order) THEN [heap |-> h, slice |-> records]
    ELSE IF ~matchWildcard(order[i], domain)
    THEN WildcardScanSlice(h, ss, domain, recordType, order, i + 1, records, spare)
    ELSE LET r == appendSlice(h, records, Elems(h, TypeSlice(ss[order[i]], recordType)), spare)
         IN  WildcardScanSlice(r.heap, ss, domain, recordType, order, i + 1, r.slice, spare)

\* GetRecords on the headers: the heap and the header it returns
GetRecordsSlice(h, ss, domain0, recordType, order, spare) ==
    LET domain == ToLower(Fqdn(domain0))
        ips == IF domain \in DOMAIN ss /\ ~isWildcard(domain)
               THEN TypeSlice(ss[domain], recordType) ELSE NilSlice
        scan == WildcardScanSlice(h, ss, domain, recordType, order, 1, NilSlice, spare)
    IN  IF ips.len > 0 THEN copyOut(h, ips)
        ELSE IF scan.slice.len = 0 THEN [heap |-> h, slice |-> NilSlice]
        ELSE copyOut(scan.heap, scan.slice)

\* AddRecord on the headers
AddRecordSlice(h, ss, domain0, ip, spare) ==
    LET domain == NormalizeDomain(domain0)
        rs == IF domain \in DOMAIN ss THEN ss[domain] ELSE [A |-> NilSlice, AAAA |-> NilSlice]
        isV4 == Len(To4(ip)) # 0
        r == appendSlice(h, IF isV4 THEN rs.A ELSE rs.AAAA, <<ip>>, spare)
    IN  [heap |-> r.heap,
         sets |-> MapPut(ss, domain, IF isV4 THEN [rs EXCEPT !.A = r.slice]
                                     ELSE [rs EXCEPT !.AAAA = r.slice])]

\* RemoveRecord on the headers
RemoveRecordSlice(h, ss, domain0, ip) ==
    LET domain == NormalizeDomain(domain0)
    IN  IF domain \notin DOMAIN ss THEN [heap |-> h, sets |-> ss]
        ELSE IF ip = NilIP THEN [heap |-> h, sets |-> MapDelete(ss, domain)]
        ELSE LET isV4 == Len(To4(ip)) # 0
                 r == removeIPSlice(h, IF isV4 THEN ss[domain].A ELSE ss[domain].AAAA, ip)
                 rs == IF isV4 THEN [ss[domain] EXCEPT !.A = r.slice]
                       ELSE [ss[domain] EXCEPT !.AAAA = r.slice]
             IN  IF rs.A.len = 0 /\ rs.AAAA.len = 0
                 THEN [heap |-> r.heap, sets |-> MapDelete(ss, domain)]
                 ELSE [heap |-> r.heap, sets |-> MapPut(ss, domain, rs)]

\* names and addresses given to the store, the address the caller writes
\* into the list it holds, and the names it asks for ("a.s", "c.s.")
HeapNames == {NameA, PatStar}
HeapIPs == {IPv4a, IPv6a}
CallerIP == IPv4b
HeapQueries == {NameA, <<"c", ".", "s", ".">>}

\* the headers of the store and of the caller, in a fixed order
HeapKeys == <<<<"a", ".", "s", ".">>, <<"*", ".", "s", ".">>>>
Refs(ss, o) ==
    <<IF HeapKeys[1] \in DOMAIN ss THEN ss[HeapKeys[1]].A.arr ELSE 0,
      IF HeapKeys[1] \in DOMAIN ss THEN ss[HeapKeys[1]].AAAA.arr ELSE 0,
      IF HeapKeys[2] \in DOMAIN ss THEN ss[HeapKeys[2]].A.arr ELSE 0,
      IF HeapKeys[2] \in DOMAIN ss THEN ss[HeapKeys[2]].AAAA.arr ELSE 0,
      o.arr>>

\* garbage collection: the arrays some header refers to are kept, and named
\* 1, 2, ... in the order of the headers (an array's address is not observable)
Collect(h, ss, o) ==
    LET refs == Refs(ss, o)
        live == {refs[i] : i \in 1..Len(refs)} \ {0}
        first(a) == CHOOSE i \in 1..Len(refs) : refs[i] = a /\ \A j \in 1..(i - 1) : refs[j] # a
        rank(a) == Cardinality({refs[j] : j \in 1..(first(a) - 1)} \ {0}) + 1
        ren(x) == IF x.arr = 0 THEN x ELSE [x EXCEPT !.arr = rank(x.arr)]
    IN  [heap |-> [n \in 1..Cardinality(live) |-> h[CHOOSE a \in live : rank(a) = n]],
         sets |-> [k \in DOMAIN ss |-> [A |-> ren(ss[k].A), AAAA |-> ren(ss[k].AAAA)]],
         out |-> ren(o)]

SetHeap(h, ss, o, op) ==
    LET c == Collect(h, ss, o)
    IN  /\ arrays' = c.heap
        /\ sets' = c.sets
        /\ out' = c.out
        /\ hLast' = op

\* the number of addresses in the lists of the store
RECURSIVE SliceLens(_, _)
SliceLens(ss, keys) ==
    IF keys = {} THEN 0
    ELSE LET k == CHOOSE x \in keys : TRUE
         IN  ss[k].A.len + ss[k].AAAA.len + SliceLens(ss, keys \ {k})

AddRecordHeap(domain, ip, spare) ==
    /\ SliceLens(sets, DOMAIN sets) < MaxRecords
    /\ LET r == AddRecordSlice(arrays, sets, domain, ip, spare)
       IN  SetHeap(r.heap, r.sets, out, "store")
    /\ UNCHANGED <<dns, flat, storeVars, last, matchVars, revVars, lockVars>>

RemoveRecordHeap(domain, ip) ==
    /\ LET r == RemoveRecordSlice(arrays, sets, domain, ip)
       IN  SetHeap(r.heap, r.sets, out, "store")
    /\ UNCHANGED <<dns, flat, storeVars, last, matchVars, revVars, lockVars>>

ClearHeap ==
    /\ SetHeap(arrays, EmptyMap, out, "store")
    /\ UNCHANGED <<dns, flat, storeVars, last, matchVars, revVars, lockVars>>

\* the caller keeps the list GetRecords returns (the array of the wildcard
\* scan is dropped after the copy, whatever its capacity was)
GetRecordsHeap(domain, recordType, order) ==
    /\ LET r == GetRecordsSlice(arrays, sets, domain, recordType, order, 0)
       IN  SetHeap(r.heap, sets, r.slice, "caller")
    /\ UNCHANGED <<dns, flat, storeVars, last, matchVars, revVars, lockVars>>

\* the caller assigns out[i] = ip
SetElement(i, ip) ==
    /\ i <= out.len
    /\ SetHeap([arrays EXCEPT ![out.arr][i] = ip], sets, out, "caller")
    /\ UNCHANGED <<dns, flat, storeVars, last, matchVars, revVars, lockVars>>

\* the caller assigns out = append(out, ip)
AppendOut(ip) ==
    /\ out.len < MaxRecords
    /\ LET r == appendSlice(arrays, out, <<ip>>, 0)
       IN  SetHeap(r.heap, sets, r.slice, "caller")
    /\ UNCHANGED <<dns, flat, storeVars, last, matchVars, revVars, lockVars>>

InitHeap ==
    /\ root = NewDNSRecordStore.root
    /\ wildcards = NewDNSRecordStore.wildcards
    /\ ptrRecords = NewDNSRecordStore.ptrRecords
    /\ last = Unlogged
    /\ mPattern = <<>>
    /\ mDomain = <<>>
    /\ mDone = FALSE
    /\ mResult = FALSE
    /\ mStack = <<>>
    /\ RevIdle
    /\ LockIdle
    /\ HeapIdle
    /\ flat = FlatNewDNSRecordStore
    /\ dns = DNSIdle

NextHeap ==
    \/ \E d \in HeapNames, ip \in HeapIPs, spare \in Spares : AddRecordHeap(d, ip, spare)
    \/ \E d \in HeapNames, ip \in HeapIPs \cup {NilIP} : RemoveRecordHeap(d, ip)
    \/ ClearHeap
    \/ \E d \in HeapQueries, t \in QueryTypes,
          order \in Orders([k \in {x \in DOMAIN sets : isWildcard(x)} |-> sets[k]]) :
          GetRecordsHeap(d, t, order)
    \/ \E i \in 1..MaxRecords : SetElement(i, CallerIP)
    \/ AppendOut(CallerIP)

SpecHeap == InitHeap /\ [][NextHeap]_vars

(***************************************************************************)
(* Vocabulary of the properties, stated on the store's tables without the  *)
(* operations under test.                                                  *)
(***************************************************************************)
\* the normalized form of a name: lower-cased, with a trailing dot
Normalized(name) ==
    LET l == ToLower(name)
    IN  IF Len(l) > 0 /\ l[Len(l)] = "." THEN l ELSE l \o <<".">>

\* the name is a wildcard pattern
IsPattern(name) == \E i \in 1..Len(name) : name[i] = "*" \/ name[i] = "?"

\* the labels of a normalized name, last label first
LabelPath(name) ==
    LET n == Normalized(name)
    IN  IF n = <<".">> THEN <<>> ELSE Reverse(Split(SubSeq(n, 1, Len(n) - 1), "."))

\* LabelPath, computed once for the names asked of the queries
LabelPathOfQueryNames == [n \in QueryNames |-> LabelPath(n)]
PathOf(name) == IF name \in QueryNames THEN LabelPathOfQueryNames[name] ELSE LabelPath(name)

\* the list of the given type that the exact name holds in the trie
ExactRecords(s, name, recordType) ==
    IF PathOf(name) \in DOMAIN s.root
    THEN (IF recordType = RecordTypeA THEN s.root[PathOf(name)].A ELSE s.root[PathOf(name)].AAAA)
    ELSE <<>>

Family(ip) == IF Len(To4(ip)) # 0 THEN RecordTypeA ELSE RecordTypeAAAA

\* the exact name holds the address
Holds(s, name, ip) ==
    \E i \in 1..Len(ExactRecords(s, name, Family(ip))) : IPEqual(ExactRecords(s, name, Family(ip))[i], ip)

\* the answer of the PTR query for the reverse name of ip
PTROf(s, ip) == GetPTRRecord(s, ReverseName[ip])

\* Normalized, computed once for the names the operations receive
NormalizedOfNames == [n \in Names |-> Normalized(n)]
Norm(name) == IF name \in Names THEN NormalizedOfNames[name] ELSE Normalized(name)

PTRIs(s, ip, name) == PTROf(s, ip) = [name |-> Norm(name), found |-> TRUE]

\* pairs of exact names that are different names after normalization
DistinctExactNames == {p \in ExactNames \X ExactNames : Normalized(p[1]) # Normalized(p[2])}

(***************************************************************************)
(* C1: after a successful AddRecord(d, ip) with a non-wildcard name d, the *)
(* PTR query for the reverse name of ip returns (normalized d, true).      *)
(***************************************************************************)
C1_PTRSynthesis ==
    (last.op = "AddRecord" /\ ~last.err /\ ~IsPattern(last.domain))
        => PTRIs(store, last.ip, last.domain)

\* "B.s." was added with 2001:db8::1 and the PTR query finds it
C1_Witness ==
    /\ last = Op("AddRecord", NameB, IPv6a, FALSE)
    /\ PTROf(store, IPv6a).found

(***************************************************************************)
(* C2: for distinct exact names d1, d2 and an address ip: AddRecord(d2,    *)
(* ip) while the PTR entry of ip is d1 moves the entry to d2 (and d2 holds *)
(* ip); RemoveRecord(d1, ip) while the entry is d2 leaves it at d2 (and    *)
(* d2 keeps ip); RemoveRecord(d2, ip) while d2 holds ip and the entry is   *)
(* d2 leaves no PTR entry for ip.                                          *)
(***************************************************************************)
C2_Added(d1, d2, ip) ==
    PTRIs(store, ip, d1) => (PTRIs(store', ip, d2) /\ Holds(store', d2, ip))

C2_RemovedOther(d1, d2, ip) ==
    PTRIs(store, ip, d2) => (PTRIs(store', ip, d2) /\ (Holds(store, d2, ip) => Holds(store', d2, ip)))

C2_RemovedOwner(d2, ip) ==
    (PTRIs(store, ip, d2) /\ Holds(store, d2, ip)) => ~PTROf(store', ip).found

C2_LastWriterPTR ==
    [][(last'.domain \in ExactNames /\ last'.ip \in ValidIPs /\ ~last'.err) =>
          \A p \in DistinctExactNames :
             /\ (last'.op = "AddRecord" /\ last'.domain = p[2]) => C2_Added(p[1], p[2], last'.ip)
             /\ (last'.op = "RemoveRecord" /\ last'.domain = p[1]) => C2_RemovedOther(p[1], p[2], last'.ip)
             /\ (last'.op = "RemoveRecord" /\ last'.domain = p[2]) => C2_RemovedOwner(p[2], last'.ip)]_vars

\* "a.s" has been added and emptied again by RemoveRecord("a.s", 10.0.0.1),
\* while "B.s." holds 10.0.0.1 and owns its PTR entry
C2_Witness ==
    /\ last = Op("RemoveRecord", NameA, IPv4a, FALSE)
    /\ LabelPath(NameA) \in DOMAIN root
    /\ root[LabelPath(NameA)].nil
    /\ Holds(store, NameB, IPv4a)
    /\ PTRIs(store, IPv4a, NameB)

(***************************************************************************)
(* C3: AddRecord and RemoveRecord with a wildcard pattern leave the PTR    *)
(* table, and so the answer of every PTR query, unchanged.                 *)
(***************************************************************************)
C3_WildcardKeepsPTR ==
    [][(last'.op \in {"AddRecord", "RemoveRecord"} /\ IsPattern(last'.domain))
          => /\ ptrRecords' = ptrRecords
             /\ \A ip \in ValidIPs : PTROf(store', ip) = PTROf(store, ip)]_vars

\* the pattern "A?s" received 10.0.0.1 while 10.0.0.1 has a PTR entry
C3_Witness ==
    /\ last = Op("AddRecord", PatQ, IPv4a, FALSE)
    /\ Normalized(PatQ) \in DOMAIN wildcards
    /\ PTROf(store, IPv4a).found

(***************************************************************************)
(* Reference semantics of the patterns (an NFA over the name): RefReach    *)
(* is the set of numbers of name bytes that the first i pattern bytes can  *)
(* consume.  '?' consumes one byte, '*' any number of bytes, but at least  *)
(* one when it is the first byte of a pattern that starts with "*.", and   *)
(* any other byte consumes itself.                                         *)
(***************************************************************************)
RefAnchored(P) == Len(P) >= 2 /\ P[1] = "*" /\ P[2] = "."

RECURSIVE RefReach(_, _, _)
RefReach(P, D, i) ==
    IF i = 0 THEN {0}
    ELSE LET R == RefReach(P, D, i - 1)
         IN  IF P[i] = "*"
             THEN {e \in 0..Len(D) : \E r \in R : e >= r + (IF i = 1 /\ RefAnchored(P) THEN 1 ELSE 0)}
             ELSE IF P[i] = "?"
             THEN {r + 1 : r \in {x \in R : x < Len(D)}}
             ELSE {r + 1 : r \in {x \in R : x < Len(D) /\ D[x + 1] = P[i]}}

RefMatch(P, D) == Len(D) \in RefReach(P, D, Len(P))

\* RefMatch, computed once for the stored form of the patterns above and
\* the names asked of the queries
NormalizedPatterns == {Normalized(p) : p \in Patterns}
RefMatchOfQueryNames ==
    [pd \in NormalizedPatterns \X QueryNames |-> RefMatch(pd[1], Normalized(pd[2]))]
Matches(p, name) ==
    IF p \in NormalizedPatterns /\ name \in QueryNames
    THEN RefMatchOfQueryNames[<<p, name>>] ELSE RefMatch(p, Normalized(name))

\* the wildcard entries whose pattern matches the name
Matching(s, name) == {p \in DOMAIN s.wildcards : Matches(p, name)}

TypeList(rs, recordType) == IF recordType = RecordTypeA THEN rs.A ELSE rs.AAAA

RECURSIVE ConcatLists(_, _, _)
ConcatLists(s, pats, recordType) ==
    IF Len(pats) = 0 THEN <<>>
    ELSE TypeList(s.wildcards[pats[1]], recordType) \o ConcatLists(s, Tail(pats), recordType)

Perms(S) == {o \in [1..Cardinality(S) -> S] : \A i, j \in 1..Cardinality(S) : o[i] = o[j] => i = j}

\* the concatenations, in every order of the entries, of the lists of the
\* wildcard entries that match the name
UnionResults(s, name, recordType) ==
    {ConcatLists(s, o, recordType) : o \in Perms(Matching(s, name))}

\* the name has a record of the type, held by the exact name or by a
\* matching wildcard entry
Known(s, name, recordType) ==
    \/ Len(ExactRecords(s, name, recordType)) > 0
    \/ \E p \in Matching(s, name) : Len(TypeList(s.wildcards[p], recordType)) > 0

(***************************************************************************)
(* C4: whenever the exact name d holds a record of type qtype,             *)
(* GetRecords(d, qtype) is exactly d's own list of that type, whatever     *)
(* wildcard entries match d.                                               *)
(***************************************************************************)
C4_ExactFirst ==
    \A d \in QueryNames, q \in QueryTypes, order \in Orders(wildcards) :
        Len(ExactRecords(store, d, q)) > 0
            => GetRecords(store, d, q, order) = ExactRecords(store, d, q)

\* "a.s." holds an A record and the matching pattern "*.s." holds another
C4_Witness ==
    /\ Len(ExactRecords(store, NameA, RecordTypeA)) > 0
    /\ PatStar \in Matching(store, NameA)
    /\ wildcards[PatStar].A # <<>>
    /\ wildcards[PatStar].A # ExactRecords(store, NameA, RecordTypeA)

(***************************************************************************)
(* C5: when the exact name d holds no record of type qtype,                *)
(* GetRecords(d, qtype) is the concatenation, in some order of the         *)
(* entries, of the qtype lists of the wildcard entries that match d: each  *)
(* matching entry once, in its insertion order, nothing else.              *)
(***************************************************************************)
C5_WildcardUnion ==
    \A d \in QueryNames, q \in QueryTypes, order \in Orders(wildcards) :
        Len(ExactRecords(store, d, q)) = 0
            => GetRecords(store, d, q, order) \in UnionResults(store, d, q)

\* two entries match "a.s." and hold different A records, "a.s." holds none
C5_Witness ==
    /\ Len(ExactRecords(store, NameA, RecordTypeA)) = 0
    /\ Cardinality(Matching(store, NameA)) = 2
    /\ Cardinality(UnionResults(store, NameA, RecordTypeA)) = 2
    /\ Matching(store, NameB) # Matching(store, NameA)

(***************************************************************************)
(* C6: when the exact name d holds records of the other type only and a    *)
(* matching wildcard entry holds qtype records, GetRecords(d, qtype)       *)
(* returns the wildcard records.                                           *)
(***************************************************************************)
C6_Fallthrough ==
    \A d \in QueryNames, q \in QueryTypes, order \in Orders(wildcards) :
        ( /\ Len(ExactRecords(store, d, q)) = 0
          /\ Len(ExactRecords(store, d, IF q = RecordTypeA THEN RecordTypeAAAA ELSE RecordTypeA)) > 0
          /\ \E p \in Matching(store, d) : Len(TypeList(wildcards[p], q)) > 0 )
            => /\ Len(GetRecords(store, d, q, order)) > 0
               /\ GetRecords(store, d, q, order) \in UnionResults(store, d, q)

\* "b.s." holds only an AAAA record and "*.s." holds an A record
C6_Witness ==
    /\ Len(ExactRecords(store, NameB, RecordTypeA)) = 0
    /\ Len(ExactRecords(store, NameB, RecordTypeAAAA)) > 0
    /\ PatStar \in Matching(store, NameB)
    /\ Len(wildcards[PatStar].A) > 0

(***************************************************************************)
(* C7: for A and AAAA questions, Resolve is Answer exactly when GetRecords *)
(* is non-empty, NoData exactly when GetRecords is empty and the name has  *)
(* a record of the other type, Forward exactly when the name has neither   *)
(* an A nor an AAAA record; NoData is never given for an unknown name.     *)
(***************************************************************************)
C7_Decision(d, q, order) ==
    LET r == Resolve(store, d, q, order)
        ips == GetRecords(store, d, q, order)
        other == IF q = RecordTypeA THEN RecordTypeAAAA ELSE RecordTypeA
    IN  /\ (r.kind = "Answer") = (Len(ips) > 0)
        /\ r.kind = "Answer" => r.records = ips
        /\ (r.kind = "NoData") = (Len(ips) = 0 /\ Known(store, d, other))
        /\ (r.kind = "Forward") = (~Known(store, d, RecordTypeA) /\ ~Known(store, d, RecordTypeAAAA))
        /\ r.kind = "NoData" => (Known(store, d, RecordTypeA) \/ Known(store, d, RecordTypeAAAA))

C7_ResolveDecision ==
    \A d \in QueryNames, q \in QueryTypes, order \in Orders(wildcards) : C7_Decision(d, q, order)

\* "c.s." is known through "*.s." only, with an A record only: the AAAA
\* question gets NoData, the A question an answer, and "x." is forwarded
C7_Witness ==
    /\ DOMAIN wildcards = {PatStar}
    /\ Resolve(store, <<"c", ".", "s", ".">>, RecordTypeAAAA, <<PatStar>>) = NoData
    /\ Resolve(store, <<"c", ".", "s", ".">>, RecordTypeA, <<PatStar>>).kind = "Answer"
    /\ Resolve(store, <<"x", ".">>, RecordTypeA, <<PatStar>>) = Forward

(***************************************************************************)
(* C8: for PTR questions, Resolve is Answer with exactly one record, the   *)
(* name GetPTRRecord finds (the PTR entry of the address the reverse name  *)
(* denotes), and Forward when GetPTRRecord finds nothing; never NoData.    *)
(***************************************************************************)
C8_Reverse(n) ==
    LET r == Resolve(store, n, RecordTypePTR, <<>>)
        g == GetPTRRecord(store, n)
    IN  /\ r.kind # "NoData"
        /\ g.found => (r.kind = "Answer" /\ r.records = <<g.name>>)
        /\ ~g.found => r = Forward

C8_ResolvePTR ==
    /\ \A n \in QueryRev : C8_Reverse(n)
    /\ \A ip \in ValidIPs :
          Resolve(store, ReverseName[ip], RecordTypePTR, <<>>)
            = IF IPString(ip) \in DOMAIN ptrRecords
              THEN Answer(<<ptrRecords[IPString(ip)]>>) ELSE Forward
    /\ Resolve(store, RevUpper, RecordTypePTR, <<>>) = Resolve(store, ReverseName[IPv4a], RecordTypePTR, <<>>)
    /\ Resolve(store, RevShort, RecordTypePTR, <<>>) = Forward

\* 10.0.0.1 has a PTR entry and 10.0.0.2 has none: one question is
\* answered with one record, the other forwarded
C8_Witness ==
    /\ Resolve(store, RevUpper, RecordTypePTR, <<>>).kind = "Answer"
    /\ Len(Resolve(store, RevUpper, RecordTypePTR, <<>>).records) = 1
    /\ Resolve(store, ReverseName[IPv4b], RecordTypePTR, <<>>) = Forward
    /\ Holds(store, NameA, IPv4a)

(***************************************************************************)
(* Spellings of a name: the name in its own, in upper and in lower case,   *)
(* each with and without the trailing dot.                                 *)
(***************************************************************************)
Undotted(name) ==
    IF Len(name) > 0 /\ name[Len(name)] = "." THEN SubSeq(name, 1, Len(name) - 1) ELSE name
Upper(name) == [i \in 1..Len(name) |-> UpperChar(name[i])]
Spellings(name) ==
    LET b == Undotted(name)
    IN  {b, Upper(b), ToLower(b), b \o <<".">>, Upper(b) \o <<".">>, ToLower(b) \o <<".">>}
SpellingsOfQueryNames == [n \in QueryNames |-> Spellings(n)]
SpellingsOfReverseName == [ip \in ValidIPs |-> Spellings(ReverseName[ip])]

(***************************************************************************)
(* C11: two spellings of a name (other letter case, trailing dot present   *)
(* or absent) are interchangeable: in every reachable store, AddRecord,    *)
(* AddPTRRecord and RemoveRecord produce the same store, and GetRecords,   *)
(* HasRecord, GetPTRRecord and HasPTRRecord return the same result, for    *)
(* exact names and wildcard patterns alike.                                *)
(***************************************************************************)
C11_SameMutation(n, v) ==
    /\ \A ip \in ValidIPs :
          /\ AddRecordStore(store, v, ip) = AddRecordStore(store, n, ip)
          /\ AddPTRRecordStore(store, ip, v) = AddPTRRecordStore(store, ip, n)
    /\ \A ip \in ValidIPs \cup {NilIP} :
          RemoveRecordStore(store, v, ip) = RemoveRecordStore(store, n, ip)

C11_SameAnswer(n, v) ==
    \A q \in QueryTypes :
       /\ HasRecord(store, v, q) = HasRecord(store, n, q)
       /\ \A order \in Orders(wildcards) :
             GetRecords(store, v, q, order) = GetRecords(store, n, q, order)

C12_HasIffGet ==
    \A d \in QueryNames, q \in QueryTypes, order \in Orders(wildcards) :
        HasRecord(store, d, q) = (Len(GetRecords(store, d, q, order)) > 0)

\* "c.s." is matched by "*.s." alone, which holds an A record and no AAAA
\* record; "a.s." holds an AAAA record of its own
C12_Witness ==
    /\ DOMAIN wildcards = {PatStar}
    /\ wildcards[PatStar].AAAA = <<>>
    /\ HasRecord(store, <<"c", ".", "s", ".">>, RecordTypeA)
    /\ ~HasRecord(store, <<"c", ".", "s", ".">>, RecordTypeAAAA)
    /\ HasRecord(store, NameA, RecordTypeAAAA)

(***************************************************************************)
(* C13: Clear, applied to any reachable store, leaves a store in which     *)
(* HasRecord is false for every name and type and HasPTRRecord is false    *)
(* for every reverse name, also for PTR entries that AddPTRRecord          *)
(* installed; GetRecords and GetPTRRecord find nothing either.             *)
(***************************************************************************)
C13_ClearForgets ==
    LET cleared == ClearStore(store)
    IN  /\ \A d \in QueryNames, q \in QueryTypes :
              /\ ~HasRecord(cleared, d, q)
              /\ GetRecords(cleared, d, q, <<>>) = <<>>
        /\ \A r \in QueryRev :
              /\ ~HasPTRRecord(cleared, r)
              /\ ~GetPTRRecord(cleared, r).found

\* the store holds a forward record, a wildcard entry and a PTR entry that
\* AddPTRRecord installed (10.0.0.1 -> "b.s." while "b.s." has no record)
C13_Witness ==
    /\ HasRecord(store, NameA, RecordTypeAAAA)
    /\ DOMAIN wildcards # {}
    /\ PTRIs(store, IPv4a, NameB)
    /\ ~Holds(store, NameB, IPv4a)
    /\ HasPTRRecord(store, RevUpper)
    /\ ~HasPTRRecord(ClearStore(store), RevUpper)

(***************************************************************************)
(* C14: AddRecord with an address that is neither an IPv4 nor an IPv6      *)
(* value returns an error and leaves the trie, the wildcard table and the  *)
(* PTR table as they were; no other call, and no AddRecord with a valid    *)
(* address, returns an error.                                              *)
(***************************************************************************)
\* a net.IP of 4 or of 16 bytes
IsAddress(ip) == Len(ip) = 4 \/ Len(ip) = 16

C14_InvalidAddress ==
    [][/\ (last'.op = "AddRecord" /\ ~IsAddress(last'.ip))
             => (last'.err /\ root' = root /\ wildcards' = wildcards /\ ptrRecords' = ptrRecords)
       /\ last'.err => (last'.op = "AddRecord" /\ ~IsAddress(last'.ip))]_vars

\* AddRecord("A?s", <3 bytes>) has failed on a store that holds records,
\* and neither "a?s." nor a PTR entry has appeared
C14_Witness ==
    /\ last = Op("AddRecord", PatQ, BadIP, TRUE)
    /\ TotalRecords > 0
    /\ Normalized(PatQ) \notin DOMAIN wildcards
    /\ ptrRecords = EmptyMap

(***************************************************************************)
(* Vocabulary for removals.                                                *)
(***************************************************************************)
\* the key of an address in the PTR table, computed once
KeyOf == [ip \in ValidIPs |-> IPString(ip)]

\* the name (exact or pattern) holds the forward record ip
HoldsRecord(s, name, ip) ==
    IF IsPattern(name)
    THEN /\ Normalized(name) \in DOMAIN s.wildcards
         /\ \E i \in 1..Len(TypeList(s.wildcards[Normalized(name)], Family(ip))) :
               IPEqual(TypeList(s.wildcards[Normalized(name)], Family(ip))[i], ip)
    ELSE Holds(s, name, ip)

\* the exact name holds some forward record
HasData(s, name) ==
    Len(ExactRecords(s, name, RecordTypeA)) + Len(ExactRecords(s, name, RecordTypeAAAA)) > 0

\* the PTR entry of ip exists and points to the exact name
PTRPointsTo(s, ip, name) ==
    ~IsPattern(name) /\ KeyOf[ip] \in DOMAIN s.ptrRecords /\ s.ptrRecords[KeyOf[ip]] = Normalized(name)

(***************************************************************************)
(* C15 as amended: in every reachable store, RemoveRecord(name, ip) for a  *)
(* name that does not hold the forward record ip leaves the trie and the   *)
(* wildcard table unchanged, and leaves the PTR table unchanged except     *)
(* that it deletes the PTR entry of ip when name is an exact name that     *)
(* holds some other record and the entry points to name;                  *)
(* RemovePTRRecord(ip) for an address without PTR entry changes nothing.   *)
(***************************************************************************)
C15_AbsentRemoval ==
    /\ \A d \in QueryNames, ip \in ValidIPs :
          ~HoldsRecord(store, d, ip) =>
              LET after == RemoveRecordStore(store, d, ip)
                  dropped == IF HasData(store, d) /\ PTRPointsTo(store, ip, d) THEN {KeyOf[ip]} ELSE {}
              IN  /\ after.root = root
                  /\ after.wildcards = wildcards
                  /\ after.ptrRecords = [k \in (DOMAIN ptrRecords) \ dropped |-> ptrRecords[k]]
    /\ \A ip \in ValidIPs :
          KeyOf[ip] \notin DOMAIN ptrRecords => RemovePTRRecordStore(store, ip) = store

\* "b.s." holds 2001:db8::1 but not 10.0.0.1, whose PTR entry points to
\* "b.s.": RemoveRecord("B.s.", 10.0.0.1) deletes that entry and nothing
\* else; the pattern "*.s." holds a record other than 10.0.0.2
C15_Witness ==
    /\ Holds(store, NameB, IPv6a)
    /\ ~Holds(store, NameB, IPv4a)
    /\ PTRPointsTo(store, IPv4a, NameB)
    /\ RemoveRecordStore(store, NameB, IPv4a).ptrRecords # ptrRecords
    /\ RemoveRecordStore(store, NameB, IPv4a).root = root
    /\ PatStar \in DOMAIN wildcards
    /\ ~HoldsRecord(store, PatStar, IPv4b)

(***************************************************************************)
(* C15 as stated: RemoveRecord(name, ip) for a name that does not hold the *)
(* forward record ip, and RemovePTRRecord(ip) for an address without PTR   *)
(* entry, leave the trie, the wildcard table and the PTR table unchanged.  *)
(***************************************************************************)
C15_Original ==
    /\ \A d \in QueryNames, ip \in ValidIPs :
          ~HoldsRecord(store, d, ip) => RemoveRecordStore(store, d, ip) = store
    /\ \A ip \in ValidIPs :
          KeyOf[ip] \notin DOMAIN ptrRecords => RemovePTRRecordStore(store, ip) = store

(***************************************************************************)
(* C16 as amended: AddRecord with an empty name and a valid address is not *)
(* rejected: it returns no error, the name is normalized to the root name  *)
(* ".", the address is appended to the list of the root node and the PTR   *)
(* entry of the address is set to ".".                                     *)
(***************************************************************************)
C16_EmptyNameIsRoot ==
    (last.op = "AddRecord" /\ last.domain = <<>> /\ IsAddress(last.ip)) =>
        /\ ~last.err
        /\ ~root[<<>>].nil
        /\ TypeList(root[<<>>], Family(last.ip))[Len(TypeList(root[<<>>], Family(last.ip)))] = last.ip
        /\ KeyOf[last.ip] \in DOMAIN ptrRecords
        /\ ptrRecords[KeyOf[last.ip]] = <<".">>
        /\ HasRecord(store, <<".">>, Family(last.ip))
        /\ GetRecords(store, <<>>, Family(last.ip), <<>>) = TypeList(root[<<>>], Family(last.ip))

\* AddRecord("", 10.0.0.1) on the empty store: the root node holds the
\* address and the PTR query for 10.0.0.1 answers "."
C16_Witness ==
    /\ last = Op("AddRecord", <<>>, IPv4a, FALSE)
    /\ root[<<>>].A = <<IPv4a>>
    /\ GetPTRRecord(store, ReverseName[IPv4a]) = [name |-> <<".">>, found |-> TRUE]

(***************************************************************************)
(* C16 as stated: AddRecord with an empty name adds no forward record and  *)
(* no PTR entry to the store.                                              *)
(***************************************************************************)
C16_Original ==
    (last.op = "AddRecord" /\ last.domain = <<>>) =>
        /\ TotalRecords = 0
        /\ ptrRecords = EmptyMap

(***************************************************************************)
(* C17: for every IPv4 and IPv6 address ip, reverseDNSToIP applied to      *)
(* IPToReverseDNS(ip) returns an address that is equal to ip.              *)
(***************************************************************************)
C17_RoundTrip ==
    (revPC = "done" /\ IsAddress(revIP)) =>
        /\ IsAddress(revBack)
        /\ IPEqual(revBack, revIP)
        /\ IPEqual(revIP, revBack)

\* ff01::a0a:0:1 went to its 32-nibble name and came back
C17_Witness ==
    /\ revPC = "done"
    /\ revIP = <<255, 1, 0, 0, 0, 0, 0, 0, 0, 0, 10, 10, 0, 0, 0, 1>>
    /\ HasSuffix(revName, Ip6Arpa)
    /\ Len(revName) = 63 + Len(Ip6Arpa)
    /\ revBack = revIP

(***************************************************************************)
(* C18: a name that does not end in ".in-addr.arpa." or ".ip6.arpa.", an   *)
(* in-addr.arpa name without exactly 4 labels in front of the suffix and   *)
(* an ip6.arpa name without exactly 32 labels in front of it are not found:*)
(* reverseDNSToIP returns nil, and GetPTRRecord and HasPTRRecord answer    *)
(* not-found in every reachable store, whatever its PTR table holds.       *)
(***************************************************************************)
MalformedToIP == [n \in MalformedRev |-> reverseDNSToIP(n)]

C18_MalformedNotFound ==
    \A n \in MalformedRev :
       /\ MalformedToIP[n] = NilIP
       /\ GetPTRRecord(store, n) = [name |-> <<>>, found |-> FALSE]
       /\ ~HasPTRRecord(store, n)

\* the PTR table holds 10.0.0.1 and 2001:db8::1, whose reverse names are
\* found, while the 5-label and the 33-label name around them are not
C18_Witness ==
    /\ HasPTRRecord(store, ReverseName[IPv4a])
    /\ HasPTRRecord(store, ReverseName[IPv6a])
    /\ ~HasPTRRecord(store, <<"9",".","1",".","0",".","0",".","1","0",".","i","n","-","a","d","d","r",".","a","r","p","a",".">>)
    /\ ~HasPTRRecord(store, <<"0", ".">> \o ReverseName[IPv6a])

(***************************************************************************)
(* C19: reverseDNSToIP returns an address for an ip6.arpa name only when   *)
(* the name has exactly 32 labels in front of the suffix and each of them  *)
(* is a single hex nibble; a name with 32 labels of which some are empty   *)
(* or longer than one character yields nil.                                *)
(***************************************************************************)
\* the labels in front of ".ip6.arpa." of a lower-case name with that suffix
Ip6Labels(name) == Split(SubSeq(name, 1, Len(name) - Len(Ip6Arpa)), ".")

IsNibble(label) == Len(label) = 1 /\ label[1] \in {HexChars[k] : k \in 1..16}

C19_SingleNibbles ==
    (revPC = "done" /\ HasSuffix(revName, Ip6Arpa) /\ revBack # NilIP) =>
        /\ Len(Ip6Labels(revName)) = 32
        /\ \A k \in 1..32 : IsNibble(Ip6Labels(revName)[k])

(***************************************************************************)
(* C20: every operation is atomic under concurrent callers.  No two        *)
(* callers write at once and none reads while one writes; whenever a       *)
(* reader is between RLock and RUnlock, and whenever no mutator holds the  *)
(* lock, the store is the store of the mutators applied whole, one after   *)
(* the other in the order in which they took the lock, never a partial     *)
(* one; and the result a reader returns is the result of its query on the  *)
(* store of that order.                                                    *)
(***************************************************************************)
InWrite(c) == calls[c].pc \in WritePCs \cup {"Unlock"}

InRead(c) == calls[c].pc \in {"exact", "scan", "lookup", "RUnlock"}

\* the result of the reader's query on the store s
Answers(s, call) ==
    CASE call.op = "GetRecords" ->
            \E order \in Orders(s.wildcards) :
                call.res = GetRecords(s, call.domain, RecordTypeA, order)
      [] call.op = "HasRecord" -> call.res = HasRecord(s, call.domain, RecordTypeA)
      [] call.op = "GetPTRRecord" -> call.res = GetPTRRecord(s, call.domain)
      [] call.op = "HasPTRRecord" -> call.res = HasPTRRecord(s, call.domain)

C20_Atomic ==
    /\ \A c, d \in Callers : (InWrite(c) /\ InWrite(d)) => c = d
    /\ \A c, d \in Callers : ~(InWrite(c) /\ InRead(d))
    /\ (\E c \in Callers : InRead(c)) => store = committed
    /\ (\A c \in Callers : ~InWrite(c)) => store = committed
    /\ \A c \in Callers : calls[c].pc = "RUnlock" => Answers(committed, calls[c])

\* AddRecord has written the trie and not yet the PTR map while a reader waits for the lock
C20_Witness ==
    \E c, d \in Callers :
        /\ calls[c].op = "AddRecord" /\ calls[c].pc = "ptr"
        /\ store # committed
        /\ calls[d].op \in ForwardReaders \cup ReverseReaders
        /\ calls[d].pc = "RLock"

(***************************************************************************)
(* C21: a list GetRecords returned is not aliased with the store.  A       *)
(* mutator (AddRecord, RemoveRecord, Clear) leaves the length and the      *)
(* elements of the list the caller holds as they were, and when the caller *)
(* changes that list (assigns an element, appends to it) every list of     *)
(* the store keeps its elements, so the store answers as before.           *)
(***************************************************************************)
\* the lists of the store, seen through the headers
StoreLists(h, ss) ==
    [k \in DOMAIN ss |-> [A |-> Elems(h, ss[k].A), AAAA |-> Elems(h, ss[k].AAAA)]]

ListOf(s, name) ==
    IF IsPattern(name)
    THEN (IF Normalized(name) \in DOMAIN s.wildcards THEN s.wildcards[Normalized(name)].A ELSE <<>>)
    ELSE ExactRecords(s, name, RecordTypeA)

\* after is before without the occurrences of ip, the others in their order
KeepsOrder(before, after, ip) ==
    LET keep == {j \in 1..Len(before) : before[j] # ip}
    IN  /\ Len(after) = Cardinality(keep)
        /\ \A j \in keep : after[Cardinality({k \in keep : k <= j})] = before[j]

\* caller c writes a list in this step
WritesList(c) == calls[c].pc \in {"trie", "wild"} /\ calls'[c].pc # calls[c].pc

C22_Write(c) ==
    \A n \in LockNames :
        ListOf(store', n) =
            IF Normalized(n) # Normalized(calls[c].domain) THEN ListOf(store, n)
            ELSE IF calls[c].op = "AddRecord" THEN Append(ListOf(store, n), calls[c].ip)
            ELSE ListOf(store', n)

C22_Remove(c) ==
    calls[c].op = "RemoveRecord" =>
        KeepsOrder(ListOf(store, calls[c].domain), ListOf(store', calls[c].domain), calls[c].ip)

C22_Read(c) ==
    (calls[c].op = "GetRecords" /\ calls[c].pc # "RUnlock" /\ calls'[c].pc = "RUnlock") =>
        calls'[c].res = IF ~IsPattern(calls[c].domain) /\ ListOf(store, calls[c].domain) # <<>>
                        THEN ListOf(store, calls[c].domain)
                        ELSE ListOf(store, PatStar)

C22_InsertionOrder ==
    [][/\ \A c \in Callers : WritesList(c) => (C22_Write(c) /\ C22_Remove(c))
       /\ (\A c \in Callers : ~WritesList(c)) =>
             \/ root' = root /\ wildcards' = wildcards
             \/ \A n \in LockNames : ListOf(store', n) = ListOf(store, n)
       /\ \A c \in Callers : C22_Read(c)]_vars

\* RemoveRecord("a.s", 10.0.0.1) has taken 10.0.0.1 out of the list of "a.s."
\* (its PTR entry is still to be deleted) and has left <<10.0.0.2, 10.0.0.3>>,
\* while another caller waits to read
C22_Witness ==
    \E c, d \in Callers :
        /\ calls[c].op = "RemoveRecord" /\ calls[c].domain = NameA /\ calls[c].ip = IPv4a
        /\ calls[c].pc = "ptr"
        /\ IPString(IPv4a) \in DOMAIN ptrRecords
        /\ ListOf(store, NameA) = <<IPv4b, IPv4c>>
        /\ calls[d].op = "GetRecords" /\ calls[d].pc = "RLock"

(***************************************************************************)
(* C23: in every reachable store, RemoveRecord(d, nil) for an exact name d *)
(* that holds records leaves d without A and without AAAA record; the PTR  *)
(* entry of an address that was in the lists of d is deleted when it       *)
(* pointed to d and is kept when it pointed to another name; the PTR       *)
(* entries of all other addresses are kept.                                *)
(***************************************************************************)
C23_RemoveAll ==
    \A d \in ExactNames :
        HasData(store, d) =>
            LET after == RemoveRecordStore(store, d, NilIP)
                dropped == {KeyOf[ip] : ip \in {x \in ValidIPs : Holds(store, d, x) /\ PTRPointsTo(store, x, d)}}
            IN  /\ ExactRecords(after, d, RecordTypeA) = <<>>
                /\ ExactRecords(after, d, RecordTypeAAAA) = <<>>
                /\ ~HasData(after, d)
                /\ after.ptrRecords = [k \in (DOMAIN ptrRecords) \ dropped |-> ptrRecords[k]]

\* "a.s." and "b.s." hold 10.0.0.1 and its PTR entry points to "b.s.":
\* RemoveRecord("a.s", nil) empties "a.s." and keeps the entry
C23_Witness ==
    /\ Holds(store, NameA, IPv4a)
    /\ Holds(store, NameB, IPv4a)
    /\ PTRPointsTo(store, IPv4a, NameB)
    /\ ~HasData(RemoveRecordStore(store, NameA, NilIP), NameA)
    /\ RemoveRecordStore(store, NameA, NilIP).ptrRecords = ptrRecords

(***************************************************************************)
(* C24: in every reachable store, RemoveRecord(d, ip) for an exact name d  *)
(* removes every occurrence of ip from the list of d of the family of ip   *)
(* and keeps the other addresses of that list in their order; the list of  *)
(* d of the other family, the lists of the other exact names and the       *)
(* wildcard table are unchanged; the PTR entry of ip is deleted exactly    *)
(* when d holds records and the entry points to d, and the PTR entries of  *)
(* the other addresses are unchanged.                                      *)
(***************************************************************************)
C24_RemoveOne ==
    \A d \in ExactNames, ip \in ValidIPs :
        LET after == RemoveRecordStore(store, d, ip)
            dropped == IF HasData(store, d) /\ PTRPointsTo(store, ip, d) THEN {KeyOf[ip]} ELSE {}
        IN  /\ ~Holds(after, d, ip)
            /\ KeepsOrder(ExactRecords(store, d, Family(ip)), ExactRecords(after, d, Family(ip)), ip)
            /\ ExactRecords(after, d, OtherType(Family(ip))) = ExactRecords(store, d, OtherType(Family(ip)))
            /\ \A e \in ExactNames, t \in QueryTypes :
                  Normalized(e) # Normalized(d) => ExactRecords(after, e, t) = ExactRecords(store, e, t)
            /\ after.wildcards = wildcards
            /\ after.ptrRecords = [k \in (DOMAIN ptrRecords) \ dropped |-> ptrRecords[k]]

\* "a.s." holds 10.0.0.1 twice, with the PTR entry pointing to "a.s.":
\* RemoveRecord("a.s", 10.0.0.1) removes both and the entry
C24_Witness ==
    /\ ExactRecords(store, NameA, RecordTypeA) = <<IPv4a, IPv4a>>
    /\ PTRPointsTo(store, IPv4a, NameA)
    /\ ExactRecords(RemoveRecordStore(store, NameA, IPv4a), NameA, RecordTypeA) = <<>>
    /\ KeyOf[IPv4a] \notin DOMAIN RemoveRecordStore(store, NameA, IPv4a).ptrRecords

(***************************************************************************)
(* C25: in every reachable store, RemoveRecord for a wildcard pattern p    *)
(* with no address deletes the entry of p; with an address ip it removes   *)
(* the occurrences of ip from the list of p of the family of ip, keeps the *)
(* other list of p, and deletes the entry when both lists are then empty.  *)
(* The entries of the other patterns, the trie and the PTR table are       *)
(* unchanged, and once the entry is gone a name that had no exact record   *)
(* and was matched by p only has no record any more.                       *)
(***************************************************************************)
\* the list of a type in the entry of a pattern, empty without entry
EntryList(s, key, recordType) ==
    IF key \in DOMAIN s.wildcards THEN TypeList(s.wildcards[key], recordType) ELSE <<>>

C25_RemoveWildcard ==
    \A p \in Patterns, ip \in ValidIPs \cup {NilIP} :
        LET key == Norm(p)
            after == RemoveRecordStore(store, p, ip)
        IN  /\ after.root = root
            /\ after.ptrRecords = ptrRecords
            /\ DOMAIN after.wildcards \subseteq DOMAIN wildcards
            /\ \A q \in (DOMAIN wildcards) \ {key} :
                  q \in DOMAIN after.wildcards /\ after.wildcards[q] = wildcards[q]
            /\ IF ip = NilIP THEN key \notin DOMAIN after.wildcards
               ELSE /\ KeepsOrder(EntryList(store, key, Family(ip)),
                                  EntryList(after, key, Family(ip)), ip)
                    /\ ~HoldsRecord(after, p, ip)
                    /\ key \in DOMAIN after.wildcards <=>
                          (key \in DOMAIN wildcards /\
                           Len(EntryList(after, key, Family(ip)))
                             + Len(EntryList(store, key, OtherType(Family(ip)))) > 0)
                    /\ key \in DOMAIN after.wildcards =>
                          EntryList(after, key, OtherType(Family(ip)))
                            = EntryList(store, key, OtherType(Family(ip)))
            /\ key \notin DOMAIN after.wildcards =>
                  \A q \in QueryNames, t \in QueryTypes :
                      (Matching(store, q) = {key} /\ Len(ExactRecords(store, q, t)) = 0) =>
                          /\ ~HasRecord(after, q, t)
                          /\ \A order \in Orders(after.wildcards) :
                                GetRecords(after, q, t, order) = <<>>

\* the entry of "*.s." holds 10.0.0.1 and 10.0.0.2 and answers for "c.s.":
\* RemoveRecord("*.s.", 10.0.0.1) leaves 10.0.0.2, and RemoveRecord("*.s.", nil)
\* deletes the entry, after which "c.s." has no record
C25_Witness ==
    /\ EntryList(store, Norm(PatStar), RecordTypeA) = <<IPv4a, IPv4b>>
    /\ EntryList(RemoveRecordStore(store, PatStar, IPv4a), Norm(PatStar), RecordTypeA) = <<IPv4b>>
    /\ HasRecord(store, <<"c", ".", "s", ".">>, RecordTypeA)
    /\ ~HasRecord(RemoveRecordStore(store, PatStar, NilIP), <<"c", ".", "s", ".">>, RecordTypeA)

(***************************************************************************)
(* C26: in every reachable state between the calls, every record set of a  *)
(* trie node has a non-empty A list or a non-empty AAAA list, and every    *)
(* entry of the wildcard table has at least one address.                   *)
(***************************************************************************)
C26_NoEmptyRecordSet ==
    /\ \A p \in DOMAIN root : ~root[p].nil => Len(root[p].A) + Len(root[p].AAAA) > 0
    /\ \A k \in DOMAIN wildcards : Len(wildcards[k].A) + Len(wildcards[k].AAAA) > 0

\* the node of "a.s." is left without record set after its records were
\* removed, while the entry of "*.s." holds an address
C26_Witness ==
    /\ PathOf(NameA) \in DOMAIN root
    /\ root[PathOf(NameA)].nil
    /\ Norm(PatStar) \in DOMAIN wildcards
    /\ Len(wildcards[Norm(PatStar)].A) = 1

(***************************************************************************)
(* C27, as stated: in every reachable state between the calls, every trie  *)
(* node other than the root has at least one child or holds a non-empty    *)
(* record set.  RemoveRecord clears the record set of a node and leaves    *)
(* the node in the trie, so this does not hold.                            *)
(***************************************************************************)
\* the node at path p has a child
HasChild(rt, p) == \E q \in DOMAIN rt : Len(q) = Len(p) + 1 /\ SubSeq(q, 1, Len(p)) = p

\* a node other than the root with no child and no address
Bare(rt, p) ==
    /\ p \in DOMAIN rt
    /\ Len(p) > 0
    /\ ~HasChild(rt, p)
    /\ Len(rt[p].A) + Len(rt[p].AAAA) = 0

C27_Original == \A p \in DOMAIN root : ~Bare(root, p)

(***************************************************************************)
(* C27, amended: no operation creates a node without child and without     *)
(* record set, and no node ever loses a child while the trie is kept; a    *)
(* node other than the root that has neither child nor record set after a  *)
(* step was such a node before the step or held a record set that the step *)
(* (a RemoveRecord) cleared.                                               *)
(***************************************************************************)
C27_BareOnlyByRemoval ==
    [][\A p \in DOMAIN root' :
          Bare(root', p) =>
              /\ p \in DOMAIN root
              /\ ~HasChild(root, p)
              /\ Bare(root, p) \/ ~root[p].nil]_vars

\* the node of "a.s." has lost its record set and has no child, while its
\* parent "s" has no record set and keeps its children
C27_Witness ==
    /\ Bare(root, PathOf(NameA))
    /\ root[PathOf(NameA)].nil
    /\ HasChild(root, SubSeq(PathOf(NameA), 1, 1))
    /\ root[SubSeq(PathOf(NameA), 1, 1)].nil

(***************************************************************************)
(* C28, as stated: every entry of the PTR table was installed by an        *)
(* earlier AddRecord of an exact name for that address, that is, every     *)
(* step that creates an entry or changes the name of an entry is a         *)
(* successful AddRecord(d, ip) with d an exact name, the entry being the   *)
(* one of ip and naming d.  AddPTRRecord installs entries too.             *)
(***************************************************************************)
\* the keys of the PTR entries the step installs or overwrites
Installed(before, after) ==
    {k \in DOMAIN after : k \notin DOMAIN before \/ before[k] # after[k]}

\* the call just made is op(d, ip), it succeeded, and k is the entry of ip
\* and now names d
InstalledBy(call, ops, k, after) ==
    /\ call.op \in ops
    /\ ~call.err
    /\ call.ip # NilIP
    /\ IPString(call.ip) = k
    /\ after[k] = Normalized(call.domain)

C28_Original ==
    [][\A k \in Installed(ptrRecords, ptrRecords') :
          InstalledBy(last', {"AddRecord"}, k, ptrRecords') /\ last'.domain \in ExactNames]_vars

(***************************************************************************)
(* C28, amended: every entry of the PTR table was installed by an earlier  *)
(* AddRecord of an exact name for that address or by an earlier            *)
(* AddPTRRecord for that address; no other call, and no AddRecord of a     *)
(* wildcard pattern, installs or changes an entry.                         *)
(***************************************************************************)
C28_InstalledByAdd ==
    [][\A k \in Installed(ptrRecords, ptrRecords') :
          \/ InstalledBy(last', {"AddRecord"}, k, ptrRecords') /\ last'.domain \in ExactNames
          \/ InstalledBy(last', {"AddPTRRecord"}, k, ptrRecords')]_vars

\* AddPTRRecord(10.0.0.1, "B.s.") has just installed the entry of 10.0.0.1
\* although "B.s." was given no record
C28_Witness ==
    /\ last.op = "AddPTRRecord"
    /\ last.ip = IPv4a
    /\ PTRPointsTo(store, IPv4a, NameB)
    /\ PathOf(NameB) \notin DOMAIN root

(***************************************************************************)
(* C29: in every reachable store, AddPTRRecord(ip, name) sets the PTR      *)
(* entry of ip to the normalized name whatever the entry was and whether   *)
(* name holds ip or not, and RemovePTRRecord(ip) deletes the entry; both   *)
(* keep the other PTR entries, the trie and the wildcard table, so that    *)
(* GetRecords and HasRecord answer as before (the answers are compared for *)
(* RemovePTRRecord and for AddPTRRecord with an exact name).               *)
(***************************************************************************)
\* two stores hold the same forward records
SameForward(s1, s2) == s1.root = s2.root /\ s1.wildcards = s2.wildcards

\* the answers of HasRecord and of GetRecords (for every iteration order
\* of the wildcard map) to the queries
AnswersOf(s) ==
    [q \in QueryNames, t \in QueryTypes |->
        <<HasRecord(s, q, t), {GetRecords(s, q, t, order) : order \in Orders(s.wildcards)}>>]

C29_PTRUnconditional ==
    LET before == AnswersOf(store)
    IN  \A ip \in ValidIPs :
            LET key == IPString(ip)
                gone == RemovePTRRecordStore(store, ip)
            IN  /\ \A name \in Names \cup QueryNames :
                      LET after == AddPTRRecordStore(store, ip, name)
                      IN  /\ DOMAIN after.ptrRecords = (DOMAIN ptrRecords) \cup {key}
                          /\ after.ptrRecords[key] = Normalized(name)
                          /\ \A k \in (DOMAIN ptrRecords) \ {key} : after.ptrRecords[k] = ptrRecords[k]
                          /\ GetPTRRecord(after, ReverseName[ip]) = [name |-> Normalized(name), found |-> TRUE]
                          /\ SameForward(after, store)
                          /\ name \in ExactNames => AnswersOf(after) = before
                /\ DOMAIN gone.ptrRecords = (DOMAIN ptrRecords) \ {key}
                /\ \A k \in (DOMAIN ptrRecords) \ {key} : gone.ptrRecords[k] = ptrRecords[k]
                /\ ~HasPTRRecord(gone, ReverseName[ip])
                /\ SameForward(gone, store)
                /\ AnswersOf(gone) = before

\* the PTR entry of 10.0.0.1 names "a.s.", which holds 10.0.0.1, and "B.s."
\* holds nothing: AddPTRRecord(10.0.0.1, "B.s.") makes the entry name "b.s."
\* and "a.s." still answers 10.0.0.1
C29_Witness ==
    /\ PTRPointsTo(store, IPv4a, NameA)
    /\ HoldsRecord(store, NameA, IPv4a)
    /\ ~HasData(store, NameB)
    /\ PTRPointsTo(AddPTRRecordStore(store, IPv4a, NameB), IPv4a, NameB)
    /\ HoldsRecord(AddPTRRecordStore(store, IPv4a, NameB), NameA, IPv4a)
    /\ ~HasPTRRecord(RemovePTRRecordStore(store, IPv4a), ReverseName[IPv4a])

(***************************************************************************)
(* C30: IPToReverseDNS gives, for an IPv4 address a.b.c.d (of 4 bytes or   *)
(* in the IPv4-mapped form of 16 bytes), the name of the decimal labels    *)
(* d, c, b, a followed by "in-addr.arpa."; for any other address of 16     *)
(* bytes, 32 labels of one lowercase hex digit each, the low nibble and    *)
(* then the high nibble of byte 15, of byte 14, and so on down to byte 0,  *)
(* followed by "ip6.arpa."; and for a slice of any other length, the empty *)
(* string.                                                                 *)
(***************************************************************************)
\* name is the in-addr.arpa name of the four bytes q
InAddrForm(q, name) ==
    LET labels == Split(name, ".")
    IN  /\ Len(labels) = 7
        /\ \A j \in 1..4 : ValidDecField(labels[j]) /\ Atoi(labels[j]) = q[5 - j]
        /\ labels[5] = <<"i", "n", "-", "a", "d", "d", "r">>
        /\ labels[6] = <<"a", "r", "p", "a">>
        /\ labels[7] = <<>>

\* name is the ip6.arpa name of the sixteen bytes q
Ip6Form(q, name) ==
    LET labels == Split(name, ".")
    IN  /\ Len(labels) = 35
        /\ \A j \in 1..32 :
              /\ Len(labels[j]) = 1
              /\ IsHexDigit(labels[j][1])
              /\ HexVal(labels[j][1]) = IF j % 2 = 1 THEN q[16 - ((j - 1) \div 2)] % 16
                                         ELSE q[16 - ((j - 1) \div 2)] \div 16
        /\ labels[33] = <<"i", "p", "6">>
        /\ labels[34] = <<"a", "r", "p", "a">>
        /\ labels[35] = <<>>

ReverseForm(ip, name) ==
    IF Len(ip) = 4 THEN InAddrForm(ip, name)
    ELSE IF Len(ip) = 16 /\ (\A i \in 1..10 : ip[i] = 0) /\ ip[11] = 255 /\ ip[12] = 255
    THEN InAddrForm(<<ip[13], ip[14], ip[15], ip[16]>>, name)
    ELSE IF Len(ip) = 16 THEN Ip6Form(ip, name)
    ELSE name = <<>>

C30_ReverseForm ==
    [][(revPC = "ip" /\ revPC' = "name") => ReverseForm(revIP, revName')]_vars

\* ::ffff:0.0.0.10 was converted to "10.0.0.0.in-addr.arpa."
C30_Witness ==
    /\ revPC = "name"
    /\ revIP = v4InV6Prefix \o <<0, 0, 0, 10>>
    /\ revName = <<"1", "0", ".", "0", ".", "0", ".", "0">> \o InAddrArpa

(***************************************************************************)
(* C31: in every state reached by AddRecord, RemoveRecord and Clear alone, *)
(* every entry of the PTR table is the entry of an address ip and names an *)
(* exact name d that holds ip in its A or AAAA list.                       *)
(***************************************************************************)
C31_NoDanglingPTR ==
    \A k \in DOMAIN ptrRecords :
        \E d \in ExactNames, ip \in ValidIPs :
            /\ KeyOf[ip] = k
            /\ ptrRecords[k] = Normalized(d)
            /\ Holds(store, d, ip)

\* "a.s." and "B.s." both hold 10.0.0.1, whose entry names "a.s.", and
\* 2001:db8::1 has lost its entry with its record
C31_Witness ==
    /\ Holds(store, NameA, IPv4a)
    /\ Holds(store, NameB, IPv4a)
    /\ PTRPointsTo(store, IPv4a, NameA)
    /\ KeyOf[IPv6a] \notin DOMAIN ptrRecords
    /\ PathOf(NameB) \in DOMAIN root

(***************************************************************************)
(* C32: when two exact names d1 and d2 both hold ip and the PTR entry of   *)
(* ip names d2, RemoveRecord(d2, ip) leaves ip without PTR entry although  *)
(* d1 still holds ip; and no RemoveRecord and no RemovePTRRecord creates a *)
(* PTR entry or changes the name of one.                                   *)
(***************************************************************************)
\* every entry of the table after is an entry of the table before
OnlyDeletes(before, after) ==
    \A k \in DOMAIN after : k \in DOMAIN before /\ after[k] = before[k]

\* d1 and d2 are two exact names that hold ip, and the entry of ip names d2
SharedOwnedBy(s, d1, d2, ip) ==
    /\ ip \in ValidIPs
    /\ ~IsPattern(d1) /\ ~IsPattern(d2)
    /\ Normalized(d1) # Normalized(d2)
    /\ Holds(s, d1, ip) /\ Holds(s, d2, ip)
    /\ PTRPointsTo(s, ip, d2)

C32_NoHandBack ==
    [][/\ last'.op \in {"RemoveRecord", "RemovePTRRecord"} => OnlyDeletes(ptrRecords, ptrRecords')
       /\ last'.op = "RemoveRecord" =>
             \A d1 \in ExactNames :
                 SharedOwnedBy(store, d1, last'.domain, last'.ip) =>
                     /\ KeyOf[last'.ip] \notin DOMAIN ptrRecords'
                     /\ Holds(store', d1, last'.ip)]_vars

\* "a.s." and "B.s." hold 10.0.0.1 and its entry names "b.s.": after
\* RemoveRecord("B.s.", 10.0.0.1) there is no entry and "a.s." holds 10.0.0.1
C32_Witness ==
    /\ SharedOwnedBy(store, NameA, NameB, IPv4a)
    /\ KeyOf[IPv4a] \notin DOMAIN RemoveRecordStore(store, NameB, IPv4a).ptrRecords
    /\ Holds(RemoveRecordStore(store, NameB, IPv4a), NameA, IPv4a)

(***************************************************************************)
(* C33: in every reachable store of a name, its parent, child and sibling, *)
(* AddRecord(d, ip) and RemoveRecord(d, ip) (with or without address)      *)
(* leave the records that GetRecords and HasRecord find for every other    *)
(* exact name as they were, for both types.                                *)
(***************************************************************************)
\* the answers for the exact name in a store without patterns
LookupOf(s, name) ==
    [t \in QueryTypes |-> <<GetRecords(s, name, t, <<>>), HasRecord(s, name, t)>>]

C33_IndependentNames ==
    \A d \in TrieNames : \A other \in TrieNames \ {d} :
        /\ \A ip \in TrieIPs :
              LookupOf(AddRecordStore(store, d, ip), other) = LookupOf(store, other)
        /\ \A ip \in TrieIPs \cup {NilIP} :
              LookupOf(RemoveRecordStore(store, d, ip), other) = LookupOf(store, other)

\* "a.s." and "b.a.s." hold 10.0.0.1 and "s." holds nothing: RemoveRecord("a.s.", nil)
\* keeps the record of "b.a.s.", and AddRecord("b.a.s.", ip) gives "s." no record
C33_Witness ==
    /\ wildcards = EmptyMap
    /\ GetRecords(store, NameA, RecordTypeA, <<>>) = <<IPv4a>>
    /\ GetRecords(store, <<"b", ".", "a", ".", "s", ".">>, RecordTypeA, <<>>) = <<IPv4a>>
    /\ GetRecords(RemoveRecordStore(store, NameA, NilIP), <<"b", ".", "a", ".", "s", ".">>, RecordTypeA, <<>>) = <<IPv4a>>
    /\ GetRecords(RemoveRecordStore(store, NameA, NilIP), NameA, RecordTypeA, <<>>) = <<>>
    /\ ~HasRecord(AddRecordStore(store, <<"b", ".", "a", ".", "s", ".">>, IPv4a), <<"s", ".">>, RecordTypeA)

(***************************************************************************)
(* C34: in every reachable store, n successful AddRecord(d, ip) calls in a *)
(* row add n occurrences of ip: for an exact name d, GetRecords(d, family  *)
(* of ip) then contains ip n times more than the list of d did (n times    *)
(* when d did not hold ip) and Resolve answers with n records more than    *)
(* the list had; for a pattern d, its list holds n occurrences more, and   *)
(* so does the result for a name that d matches and that has no exact      *)
(* record of the family.                                                   *)
(***************************************************************************)
\* most calls in a row
MaxAdds == 2

\* the store after n calls AddRecord(d, ip)
RECURSIVE AddN(_, _, _, _)
AddN(s, d, ip, n) == IF n = 0 THEN s ELSE AddN(AddRecordStore(s, d, ip), d, ip, n - 1)

\* the number of occurrences of ip in a list
Count(list, ip) == Cardinality({i \in 1..Len(list) : IPEqual(list[i], ip)})

C34_NoDedup ==
    \A d \in Names, ip \in ValidIPs, n \in 1..MaxAdds :
        LET t == Family(ip)
            after == AddN(store, d, ip, n)
        IN  IF ~IsPattern(d)
            THEN \A order \in Orders(after.wildcards) :
                    /\ Count(GetRecords(after, d, t, order), ip) = Count(ExactRecords(store, d, t), ip) + n
                    /\ Resolve(after, d, t, order).kind = "Answer"
                    /\ Len(Resolve(after, d, t, order).records) = Len(ExactRecords(store, d, t)) + n
            ELSE /\ Count(EntryList(after, Norm(d), t), ip) = Count(EntryList(store, Norm(d), t), ip) + n
                 /\ \A q \in QueryNames :
                       (Matches(Norm(d), q) /\ Len(ExactRecords(store, q, t)) = 0) =>
                           \A order \in Orders(after.wildcards), order0 \in Orders(wildcards) :
                               Count(GetRecords(after, q, t, order), ip)
                                 = Count(GetRecords(store, q, t, order0), ip) + n

\* "a.s." holds no address and "*.s." holds 10.0.0.1 once: two calls
\* AddRecord("a.s", 10.0.0.1) make GetRecords return it twice, and two calls
\* AddRecord("*.s.", 10.0.0.1) make "c.s." resolve to three records
C34_Witness ==
    /\ ~HasData(store, NameA)
    /\ EntryList(store, Norm(PatStar), RecordTypeA) = <<IPv4a>>
    /\ GetRecords(AddN(store, NameA, IPv4a, 2), NameA, RecordTypeA, <<Norm(PatStar)>>) = <<IPv4a, IPv4a>>
    /\ Resolve(AddN(store, PatStar, IPv4a, 2), <<"c", ".", "s", ".">>, RecordTypeA, <<Norm(PatStar)>>)
          = Answer(<<IPv4a, IPv4a, IPv4a>>)

(***************************************************************************)
(* C35: after every sequence of AddRecord, AddPTRRecord, RemoveRecord,     *)
(* RemovePTRRecord and Clear calls made on both stores, the flat-map store *)
(* and the trie store give the same results: the same HasRecord, the same  *)
(* GetRecords as a multiset (whatever the iteration orders of the wildcard *)
(* maps), the same GetPTRRecord and the same HasPTRRecord.  The stated     *)
(* equivalence does not hold: RemoveRecord(d, ip) of the trie store        *)
(* deletes the PTR entry of ip that names d whenever d has a record set,   *)
(* the flat-map store only when d has a list of the family of ip.          *)
(***************************************************************************)
\* two lists hold the same addresses the same number of times
SameBag(l1, l2) ==
    /\ Len(l1) = Len(l2)
    /\ \A i \in 1..Len(l1) :
          Cardinality({j \in 1..Len(l1) : l1[j] = l1[i]}) = Cardinality({j \in 1..Len(l2) : l2[j] = l1[i]})

\* the forward queries agree
ForwardAgree ==
    \A q \in QueryNames, t \in QueryTypes :
        /\ HasRecord(store, q, t) = FlatHasRecord(flat, q, t)
        /\ \A order \in Orders(wildcards), forder \in Orders(FlatWild(flat, t)) :
              SameBag(GetRecords(store, q, t, order), FlatGetRecords(flat, q, t, forder))

\* the reverse queries agree
ReverseAgree ==
    \A r \in QueryRev :
        /\ GetPTRRecord(store, r) = FlatGetPTRRecord(flat, r)
        /\ HasPTRRecord(store, r) = FlatHasPTRRecord(flat, r)

C35_Equivalent == ForwardAgree /\ ReverseAgree

(***************************************************************************)
(* C36: the decision Resolve returns for an A / AAAA question is a         *)
(* decision of the sequential algorithm on one of the store states that    *)
(* existed between the start and the return of the call; in particular it  *)
(* is not Forward when the name had a record in each of these states.  The *)
(* store may change between the GetRecords and the HasRecord of one        *)
(* Resolve, so this does not hold.                                         *)
(***************************************************************************)
C36_Consistent ==
    \A c \in Callers :
        calls[c].pc = "return" =>
            /\ calls[c].res \in calls[c].seen
            /\ calls[c].res = Forward => Forward \in calls[c].seen

(***************************************************************************)
(* C37: matchWildcard terminates for every pattern and name.  Every call   *)
(* of matchWildcardInternal made by another one has indices within the     *)
(* pattern and the name, neither smaller than its caller's and at least    *)
(* one of them larger, and every call of matchWildcard returns, with the   *)
(* result of the recursive definition.                                     *)
(***************************************************************************)
Advances(caller, callee) ==
    /\ callee.pi >= caller.pi /\ callee.di >= caller.di
    /\ callee.pi > caller.pi \/ callee.di > caller.di
    /\ callee.pi <= Len(mPattern) /\ callee.di <= Len(mDomain)

StepsAdvance == \A k \in 1..(Len(mStack) - 1) : Advances(mStack[k], mStack[k + 1])

C37_Terminates ==
    /\ [](StepsAdvance /\ (mDone => mResult = matchWildcard(mPattern, mDomain)))
    /\ <>mDone

C37_Witness ==
    /\ mPattern = <<"*", ".", "*", "*">>
    /\ mDomain = <<"a", ".", "a", ".">>
    /\ Len(mStack) = 5
    /\ mStack[5].pc = "ret"

(***************************************************************************)
(* C38: when SetupDNSOverride returns, (a) if no manager with its own      *)
(* configurator was detected, or the constructor of the detected one       *)
(* failed, the file-based constructor was called next, and its             *)
(* configurator, once constructed, is the one setDNS used; (b) if SetDNS   *)
(* failed, that is the last call, the only SetDNS, and its error is        *)
(* returned; (c) each GetCurrentDNS, failed or not, is followed by SetDNS  *)
(* of the same configurator.                                               *)
(***************************************************************************)
LogCalls(call) == {k \in 1..Len(dns.log) : dns.log[k].call = call}

FallsBack ==
    \/ dns.manager \notin DetectedManagers
    \/ \E k \in LogCalls("New") : dns.log[k].who = dns.manager /\ ~dns.log[k].ok

FileUsed ==
    \E k \in LogCalls("New") :
        /\ dns.log[k].who = "file"
        /\ \A j \in LogCalls("New") : j <= k
        /\ dns.log[k].ok =>
              /\ dns.configurator = "file"
              /\ LogCalls("SetDNS") # {}
              /\ \A j \in LogCalls("SetDNS") \cup LogCalls("GetCurrentDNS") :
                    j > k /\ dns.log[j].who = "file"

SetDNSErrorReturned ==
    \A k \in LogCalls("SetDNS") :
        ~dns.log[k].ok =>
            /\ k = Len(dns.log)
            /\ LogCalls("SetDNS") = {k}
            /\ dns.err = "failed to set DNS"

SetDNSAttempted ==
    \A k \in LogCalls("GetCurrentDNS") :
        /\ k < Len(dns.log)
        /\ dns.log[k + 1].call = "SetDNS"
        /\ dns.log[k + 1].who = dns.log[k].who

C38_Fallback ==
    dns.pc = "return" =>
        /\ FallsBack => FileUsed
        /\ SetDNSErrorReturned
        /\ SetDNSAttempted

C38_Witness ==
    /\ dns.pc = "return"
    /\ dns.manager = "NetworkManager"
    /\ Len(dns.log) = 4
    /\ ~dns.log[1].ok /\ dns.log[2].ok /\ ~dns.log[3].ok /\ ~dns.log[4].ok
    /\ dns.err = "failed to set DNS"

(***************************************************************************)
(* C9: for a non-empty literal s, the pattern "*.s." matches x.s. for      *)
(* every non-empty x (dots in x included) and does not match s.; so once   *)
(* the pattern is stored, GetRecords and HasRecord find nothing for the    *)
(* base name s.                                                            *)
(***************************************************************************)
\* P is "*.s." for a non-empty s without wildcard bytes
AnchoredLiteral(P) ==
    /\ Len(P) >= 4
    /\ P[1] = "*" /\ P[2] = "." /\ P[Len(P)] = "."
    /\ \A i \in 3..(Len(P) - 1) : P[i] # "*" /\ P[i] # "?"

\* the base name "s." of the pattern "*.s."
BaseName(P) == SubSeq(P, 3, Len(P))

\* D is "x.s." for a non-empty x, where P is "*.s."
UnderBase(P, D) == Len(D) >= Len(P) /\ SubSeq(D, Len(D) - Len(P) + 2, Len(D)) = SubSeq(P, 2, Len(P))

C9_AnchoredStar ==
    AnchoredLiteral(mPattern) =>
        /\ (mDone /\ UnderBase(mPattern, mDomain)) => mResult
        /\ (mDone /\ mDomain = BaseName(mPattern)) => ~mResult
        /\ last.op = "AddRecord" =>
              \A q \in QueryTypes, order \in Orders(wildcards) :
                 /\ GetRecords(store, BaseName(mPattern), q, order) = <<>>
                 /\ ~HasRecord(store, BaseName(mPattern), q)

\* "*.a." is stored and answers for "..a.", and the matcher has refused
\* the base name "a."
C9_Witness ==
    /\ mPattern = <<"*", ".", "a", ".">>
    /\ mDomain = <<"a", ".">>
    /\ mDone /\ ~mResult
    /\ mPattern \in DOMAIN wildcards
    /\ HasRecord(store, <<".", ".", "a", ".">>, RecordTypeA)

(***************************************************************************)
(* C10: matchWildcard agrees with the reference semantics for every        *)
(* pattern and name: '?' one byte, '*' any number of bytes but at least    *)
(* one for the '*' of a leading "*.", other bytes literally, the whole     *)
(* pattern against the whole name.  A '*' before a '.' that is not at      *)
(* position 0 may match no byte: "a*." matches "a.".                       *)
(***************************************************************************)
C10_MatchesReference ==
    mDone =>
        /\ mResult = RefMatch(mPattern, mDomain)
        /\ (mPattern = <<"a", "*", ".">> /\ mDomain = <<"a", ".">>) => mResult
        /\ (mPattern = <<"*", ".">> /\ mDomain = <<".">>) => ~mResult
        /\ (mPattern = <<"?">> /\ mDomain = <<".">>) => mResult

\* the matcher has accepted "a." for "a*."
C10_Witness ==
    /\ mDone /\ mResult
    /\ mPattern = <<"a", "*", ".">>
    /\ mDomain = <<"a", ".">>

====
